---- MODULE Spec2Model ----
(***************************************************************************)
(* Runtime control core of the Jukebox (Software/jukebox.py): keypad       *)
(* decoding and debounce, lamps, sample/asset cache, the playback          *)
(* controller with its LOAD thread, lamp-animation thread and player       *)
(* process, and the idle / entry / soundboard mode loop of run().          *)
(*                                                                         *)
(* The main thread is a call stack of labels (pc, top first).  Exceptions  *)
(* are a value in exc that unwinds the stack frame by frame.               *)
(* A local variable that the code assigns again before it reads it holds   *)
(* Dead from its last use on.  The user and the clock act while the main   *)
(* thread is at a label where it samples the pins or waits for a deadline. *)
(***************************************************************************)
EXTENDS Integers, Sequences, FiniteSets, TLC

VARIABLES
    pc,                 \* main thread: call stack of labels, top first
    exc,                \* exception propagating in the main thread, or "none"
    pending,            \* exception saved while a finally block runs
    ret,                \* return value in flight: <<function, value>> or <<>>
    lamps,              \* the three lamp pins <<top, lr, bottom>>
    pins,               \* physical state of the four keypad pins
    timer,              \* seconds since the active deadline was armed
    sd,                 \* the sound the sound device was last given; Silent
                        \* once the wait that follows its start is over
    asset_samples,      \* keys of the preloaded assets
    soundboard_samples, \* key -> bank the cached sample was loaded from
    bank,               \* soundboard(): bank
    key,                \* run(): key
    input,              \* run(): input, a sequence of digit characters
    boot,               \* run(): boot
    read,               \* key held by prompt_keypad_input / idle / soundboard
    skip,               \* idle(): skip
    frame,              \* idle(): index of the animation frame, 0 outside
    blink,              \* iteration of a 3-blink loop
    number,             \* play(): number
    spath,              \* play(): spath, a file of the songs directory or NoFile
    bpm,                \* play(): bpm
    proc,               \* play(): proc and the state of the player process
    aborted,            \* play(): aborted
    load_thread,        \* play(): load_sample_thread
    lights,             \* play(): lights_thread (random_lights_thread)
    stop_event,         \* play(): stop_event
    trace,              \* events of the current play() call, in order
    sawReleased,        \* debounce_and_await_release read the keypad released
    songs,              \* files of the songs directory, or NotADirectory
    unwound,            \* the call stack an uncaught exception left behind
    samples,            \* read_keypad_input: the samples of one call
    decoded,            \* read_keypad_input: what that call returned
    assets,             \* the files of the assets directory, per asset key
    delay,              \* random_lights_thread: delay, a fraction <<num, den>>
    gpio,               \* the GPIO library: "unset", "setup" or "cleanup"
    todo,               \* preload_assets: the asset keys its loop has not handled
    press,              \* a key pressed while play() waits for bpm_tag or for the
                        \* LOAD thread: "held", "missed" once it is released
                        \* with no keypad read in between, else "none"
    heldOver            \* the pins still hold the press that made soundboard()
                        \* return

vars == <<pc, exc, pending, ret, lamps, pins, timer, sd, asset_samples,
          soundboard_samples, bank, key, input, boot, read, skip, frame,
          blink, number, spath, bpm, proc, aborted, load_thread, lights,
          stop_event, trace, sawReleased, songs, unwound, samples, decoded,
          assets, delay, gpio, todo,
          press, heldOver>>

---------------------------------------------------------------------------
(* Bounds of the model *)

\* fastest tempo handed to random_lights_thread, in beats per minute
MaxBpm == 640
\* longest digit buffer typed in Entry mode
MaxDigits == 2
\* most glitched samples the line noise puts into one keypad read of the run loop
MaxGlitch == 2
\* patterns of ALL_LIGHT_PATTERNS that random.choice draws from
MaxPatterns == 1
\* seconds that pass in one step of the clock
TickSeconds == 30

---------------------------------------------------------------------------
(* Program constants *)

IDLE_ANIMATION_INTERVAL == 30
SOUNDBOARD_TIMEOUT == 60
MAX_BANK_NUMBER == 9
KEYPAD_TIMEOUT == 5
KEYPAD_TAKE_SAMPLES == 10
FALLBACK_BPM == 120

None == "None"

\* the value of a local variable that the code does not read again before it
\* assigns it
Dead == "dead"

LAMP_ON == 1
LAMP_OFF == 0

ASSET_FILES == {"TRACK_NOT_FOUND", "LOAD", "MISSING", "BANK_OUT_OF_RANGE", "PRESS"}

LIGHT_PATTERN_BLINK_ALL ==
    << <<1,1,1>>, <<0,0,0>>, <<1,1,1>>, <<0,0,0>>,
       <<1,1,1>>, <<0,0,0>>, <<1,1,1>>, <<0,0,0>> >>

LIGHT_PATTERN_UP_DOWN ==
    << <<1,0,0>>, <<0,1,0>>, <<0,0,1>>, <<0,1,0>>,
       <<1,0,0>>, <<0,1,0>>, <<0,0,1>>, <<0,1,0>> >>

LIGHT_PATTERN_DOWN_UP ==
    << <<0,0,1>>, <<0,1,0>>, <<1,0,0>>, <<0,1,0>>,
       <<0,0,1>>, <<0,1,0>>, <<1,0,0>>, <<0,1,0>> >>

LIGHT_PATTERN_TB_LR ==
    << <<1,0,1>>, <<0,1,0>>, <<1,0,1>>, <<0,1,0>>,
       <<1,0,1>>, <<0,1,0>>, <<1,0,1>>, <<0,1,0>> >>

LIGHT_PATTERN_UP_DOWN_UP ==
    << <<1,0,0>>, <<0,1,0>>, <<0,0,1>>, <<0,1,0>>,
       <<1,0,0>>, <<0,1,0>>, <<0,0,1>>, <<0,1,0>> >>

TETRIS ==
    << <<1,0,0>>, <<0,1,0>>, <<0,0,1>>, <<0,1,1>>,
       <<1,1,1>>, <<0,0,0>>, <<1,1,1>>, <<0,0,0>> >>

ALL_LIGHT_PATTERNS ==
    << LIGHT_PATTERN_BLINK_ALL, LIGHT_PATTERN_DOWN_UP, LIGHT_PATTERN_UP_DOWN,
       LIGHT_PATTERN_UP_DOWN_UP, LIGHT_PATTERN_TB_LR, TETRIS >>

---------------------------------------------------------------------------
(* Keypad decoder *)

KEYPAD_RELEASED == <<0,0,0,0>>

\* faulty variant of KEYPAD_LOOKUP: the vector of RED is decoded as BLUE
KEYPAD_LOOKUP_CONFUSED ==
    (<<0,1,0,1>> :> "0") @@ (<<1,0,1,1>> :> "1") @@ (<<1,0,0,1>> :> "2") @@
    (<<1,0,1,0>> :> "3") @@ (<<0,0,1,1>> :> "4") @@ (<<0,0,0,1>> :> "5") @@
    (<<0,0,1,0>> :> "6") @@ (<<1,1,1,1>> :> "7") @@ (<<1,1,0,1>> :> "8") @@
    (<<1,1,1,0>> :> "9") @@ (<<0,1,1,1>> :> "R") @@ (<<0,1,1,0>> :> "G") @@
    (<<1,0,0,0>> :> "YELLOW") @@ (<<0,1,0,0>> :> "BLUE") @@
    (<<1,1,0,0>> :> "BLUE")

KEYPAD_LOOKUP ==
    (<<0,1,0,1>> :> "0") @@ (<<1,0,1,1>> :> "1") @@ (<<1,0,0,1>> :> "2") @@
    (<<1,0,1,0>> :> "3") @@ (<<0,0,1,1>> :> "4") @@ (<<0,0,0,1>> :> "5") @@
    (<<0,0,1,0>> :> "6") @@ (<<1,1,1,1>> :> "7") @@ (<<1,1,0,1>> :> "8") @@
    (<<1,1,1,0>> :> "9") @@ (<<0,1,1,1>> :> "R") @@ (<<0,1,1,0>> :> "G") @@
    (<<1,0,0,0>> :> "YELLOW") @@ (<<0,1,0,0>> :> "BLUE") @@
    (<<1,1,0,0>> :> "RED")

\* every state the four input pins can be read in
PinVectors == {<<a, b, c, d>> : a \in 0..1, b \in 0..1, c \in 0..1, d \in 0..1}

\* samples.count(v)
Count(s, v) == Cardinality({i \in DOMAIN s : s[i] = v})

\* faulty variant of MostFrequent: min in place of max
LeastFrequent(s) ==
    {v \in {s[i] : i \in DOMAIN s} :
        \A w \in {s[i] : i \in DOMAIN s} : Count(s, v) <= Count(s, w)}

\* max(set(samples), key=samples.count): a most frequent state; which of
\* several equally frequent ones is returned depends on the set's iteration
\* order, so all of them are possible
MostFrequent(s) ==
    {v \in {s[i] : i \in DOMAIN s} :
        \A w \in {s[i] : i \in DOMAIN s} : Count(s, w) <= Count(s, v)}

\* faulty variant of Lookup: the four pins are taken in the opposite order
LookupReversed(v) ==
    IF <<v[4], v[3], v[2], v[1]>> \in DOMAIN KEYPAD_LOOKUP
    THEN KEYPAD_LOOKUP[<<v[4], v[3], v[2], v[1]>>] ELSE None

\* the lookup at the end of read_keypad_input
Lookup(v) == IF v \in DOMAIN KEYPAD_LOOKUP THEN KEYPAD_LOOKUP[v] ELSE None

\* the values read_keypad_input can return for the samples s it took
read_keypad_input(s) == {Lookup(v) : v \in MostFrequent(s)}

\* KEYPAD_TAKE_SAMPLES samples, the first k of them g and the rest p
Mix(g, k, p) == [i \in 1..KEYPAD_TAKE_SAMPLES |-> IF i <= k THEN g ELSE p]

---------------------------------------------------------------------------
(* Files and external tools: the inputs of the run *)

\* a file <prefix>_<title>.<ext> of the songs directory
SongFile(prefix, title, ext) == [prefix |-> prefix, title |-> title, ext |-> ext]

\* song_path found no file (None)
NoFile == SongFile(<<>>, "None", "None")

\* spath once play() does not read it again
DeadFile == SongFile(<<>>, Dead, Dead)

\* JUKEBOX_SONGS_PATH: unset, not a directory, or a directory and its files
SongsPath(status, files) == [status |-> status, files |-> files]

\* the settings of the songs directory the process is started with
SongDirs ==
    { SongsPath("unset", {}),
      SongsPath("not_a_directory", {}),
      SongsPath("directory", {}),
      SongsPath("directory",
          { SongFile(<<"7">>, "Song", "mp3"), SongFile(<<"7">>, "Other", "mp3"),
            SongFile(<<"0">>, "Wave", "wav"), SongFile(<<"0", "0">>, "Padded", "mp3") }) }

\* the keys the user presses: digits 0 and 7, R, G, YELLOW, BLUE, RED
PressableVectors ==
    { <<0,1,0,1>>, <<1,1,1,1>>, <<0,1,1,1>>, <<0,1,1,0>>,
      <<1,0,0,0>>, <<0,1,0,0>>, <<1,1,0,0>> }

\* the states line noise puts into single samples
GlitchVectors == { <<1,1,0,0>>, <<0,0,0,1>> }

\* the sample lists one read of the run loop can take while the pins are p
SampleRuns(p) == { Mix(g, k, p) : g \in GlitchVectors, k \in 0..MaxGlitch }

\* the keys one read of the run loop can return while the pins are p
Reads(p) == UNION { read_keypad_input(s) : s \in SampleRuns(p) }

\* an asset file: absent, or a wave file with a frame rate that decodes or not
AssetFile(exists, framerate, decodes) ==
    [exists |-> exists, framerate |-> framerate, decodes |-> decodes]

AssetsAllValid == [k \in ASSET_FILES |-> AssetFile(TRUE, 44100, TRUE)]

AssetsPartial ==
    [k \in ASSET_FILES |->
        CASE k = "TRACK_NOT_FOUND" -> AssetFile(FALSE, 0, FALSE)
          [] k = "LOAD" -> AssetFile(TRUE, 22050, TRUE)
          [] k = "MISSING" -> AssetFile(TRUE, 48000, FALSE)
          [] OTHER -> AssetFile(TRUE, 48000, TRUE)]

\* the files an asset key can have
AssetKinds ==
    { AssetFile(FALSE, 0, FALSE), AssetFile(TRUE, 22050, TRUE),
      AssetFile(TRUE, 44100, FALSE), AssetFile(TRUE, 48000, FALSE),
      AssetFile(TRUE, 44100, TRUE), AssetFile(TRUE, 48000, TRUE) }

\* every assets directory
AssetInstalls == [ASSET_FILES -> AssetKinds]

\* the assets directories of the run
AssetDirs == {AssetsAllValid, AssetsPartial}

\* what running bpm-tag can give: the tool is not installed, or its output,
\* as the list of numbers that are followed by " BPM" in it
BpmRun(found, numbers) == [found |-> found, numbers |-> numbers]

BpmToolRuns == {BpmRun(FALSE, <<>>), BpmRun(TRUE, <<>>), BpmRun(TRUE, <<90>>)}

\* what Popen(["ffplay", ...]) can give
PlayerLaunches == {"started", "FileNotFoundError"}

---------------------------------------------------------------------------
(* Pure functions of the program *)

Digits == {"0", "1", "2", "3", "4", "5", "6", "7", "8", "9"}

DigitValue ==
    ("0" :> 0) @@ ("1" :> 1) @@ ("2" :> 2) @@ ("3" :> 3) @@ ("4" :> 4) @@
    ("5" :> 5) @@ ("6" :> 6) @@ ("7" :> 7) @@ ("8" :> 8) @@ ("9" :> 9)

DigitChar == <<"0", "1", "2", "3", "4", "5", "6", "7", "8", "9">>

\* int(input) for a non-empty sequence of digit characters
RECURSIVE int(_)
int(s) ==
    IF Len(s) = 1 THEN DigitValue[s[1]]
    ELSE 10 * int(SubSeq(s, 1, Len(s) - 1)) + DigitValue[s[Len(s)]]

\* str(number), as in the f-string of song_path
RECURSIVE str(_)
str(n) ==
    IF n < 10 THEN <<DigitChar[n + 1]>>
    ELSE Append(str(n \div 10), DigitChar[(n % 10) + 1])

\* glob of f"{number}_*.mp3" in the songs directory
Glob(dir, n) == {f \in dir : f.prefix = str(n) /\ f.ext = "mp3"}

\* song_path: song_files[0], one of the matches in listing order, or None
song_path(dir, n) == IF Glob(dir, n) = {} THEN {NoFile} ELSE Glob(dir, n)

\* bpm_tag: the first "<number> BPM" of the output, or the fallback
bpm_tag(out) == IF out # <<>> THEN out[1] ELSE FALLBACK_BPM

\* a sound handed to the sound device: an asset, or a soundboard sample and
\* the bank it was loaded from
Sound(kind, k, origin) == <<kind, k, origin>>
Silent == Sound("none", "none", 0)

\* one iteration of the loop of preload_assets: asset_samples after key k
preload_asset(dir, k, loaded) ==
    IF dir[k].exists /\ dir[k].framerate \in {44100, 48000} /\ dir[k].decodes
    THEN loaded \cup {k}
    ELSE loaded

\* preload_assets: the keys that end up in asset_samples
preload_assets(dir) ==
    {k \in ASSET_FILES :
        /\ dir[k].exists
        /\ dir[k].framerate \in {44100, 48000}
        /\ dir[k].decodes}

\* fractions <<numerator, denominator>> with positive denominators
FracLeq(x, y) == x[1] * y[2] <= y[1] * x[2]
FracMax(x, y) == IF FracLeq(x, y) THEN y ELSE x

\* faulty variant of frame_delay: 60 / bpm as in show_light_pattern, no floor
frame_delay_unclamped(b, m) == <<60, b * m>>

\* delay = max(60 / (bpm * bpm_multiplier), 0.1)
frame_delay(b, m) == FracMax(<<60, b * m>>, <<1, 10>>)

set_all_lamps(state) == <<state, state, state>>

\* play_asset(key, wait=False): what the sound device renders afterwards
play_asset(k, device) == IF k \in asset_samples THEN Sound("asset", k, 0) ELSE device

---------------------------------------------------------------------------
(* The call stack and exceptions of the main thread *)

At(l) == exc = "none" /\ pc # <<>> /\ Head(pc) = l

Goto(l) == pc' = <<l>> \o Tail(pc)

\* replace the current label by back and enter a function at label entry
Call(entry, back) == pc' = <<entry, back>> \o Tail(pc)

Running == pc # <<>> /\ pc[Len(pc)] = "main_try"

\* the labels of play() inside its try block
PlayTryLabels == {"play_poll", "play_read"}


playVars == <<number, spath, bpm, proc, aborted, load_thread, lights, stop_event, trace>>
runVars == <<key, input, boot>>
idleVars == <<skip, frame>>
cacheVars == <<asset_samples, soundboard_samples, bank>>
inputVars == <<songs, assets, samples, decoded, delay>>
fixedVars == <<inputVars, unwound, gpio, todo, press, heldOver>>
excVars == <<exc, pending>>

\* delay before random_lights_thread has computed it
NoDelay == <<0, 1>>

\* the locals of play() before the call
NoLights == [pc |-> "none", pattern |-> 0, mult |-> 0, rep |-> 0, frame |-> 0]

\* an exception e is raised inside the try block of play(): its finally
\* block runs with the exception pending
Caught(e) ==
    /\ pending' = e
    /\ Goto("play_fin")
    /\ UNCHANGED <<exc, ret, lamps, pins, timer, sd, cacheVars, runVars, read,
                   idleVars, blink, playVars, sawReleased, fixedVars>>

\* an exception e is raised where no handler of run() encloses it: the stack
\* unwinds to the try statement of the main script, and the locals of the
\* frames it leaves are gone; threads, player and pins stay as they are
Uncaught(e) ==
    /\ exc' = e
    /\ pending' = "none"
    /\ pc' = <<"main_except">>
    /\ unwound' = pc
    /\ ret' = <<>>
    /\ timer' = 0
    /\ key' = Dead /\ input' = <<Dead>> /\ boot' = FALSE
    /\ read' = None /\ skip' = FALSE /\ frame' = 0 /\ blink' = 0
    /\ number' = 0 /\ spath' = NoFile /\ bpm' = 0 /\ aborted' = FALSE
    /\ bank' = 0
    /\ UNCHANGED <<lamps, pins, sd, asset_samples, soundboard_samples, proc,
                   load_thread, lights, stop_event, trace, sawReleased, inputVars,
                   gpio, todo,
                   press, heldOver>>

\* an exception e is raised at the current label
Raise(e) == IF Head(pc) \in PlayTryLabels THEN Caught(e) ELSE Uncaught(e)

---------------------------------------------------------------------------
(* Environment: the user at the keypad, the clock *)

\* labels at which the main thread samples the keypad pins next; the pins
\* are seen nowhere else, so the user acts while the thread is at one of them
KeypadReads ==
    {"prompt_loop", "prompt_sleep", "idle_frame", "idle_wait", "sb_loop", "sb_sleep",
     "deb_wait", "play_read", "play_fin_join"}

Press ==
    /\ Running
    /\ exc = "none"
    /\ Head(pc) \in KeypadReads
    /\ pins = KEYPAD_RELEASED
    /\ \E v \in PressableVectors : pins' = v
    /\ UNCHANGED <<pc, excVars, ret, lamps, timer, sd, cacheVars, runVars, read,
                   idleVars, blink, playVars, sawReleased, fixedVars>>

Release ==
    /\ Running
    /\ exc = "none"
    /\ Head(pc) \in KeypadReads
    /\ pins # KEYPAD_RELEASED
    /\ pins' = KEYPAD_RELEASED
    /\ heldOver' = FALSE
    /\ UNCHANGED <<pc, excVars, ret, lamps, timer, sd, cacheVars, runVars, read,
                   idleVars, blink, playVars, sawReleased, inputVars, unwound,
                   gpio, todo, press>>

\* labels at which play() is blocked without reading the keypad: in
\* subprocess.run of bpm_tag, and in load_sample_thread.join()
BlockedWaits == {"play_bpm", "play_join"}

\* the user presses a key while play() is blocked
PressWhileBlocked ==
    /\ Running
    /\ exc = "none"
    /\ Head(pc) \in BlockedWaits
    /\ pins = KEYPAD_RELEASED
    /\ \E v \in PressableVectors : pins' = v
    /\ press' = "held"
    /\ UNCHANGED <<pc, excVars, ret, lamps, timer, sd, cacheVars, runVars, read,
                   idleVars, blink, playVars, sawReleased, inputVars, unwound,
                   gpio, todo, heldOver>>

\* and releases it, or a key held since before, while play() is still blocked
ReleaseWhileBlocked ==
    /\ Running
    /\ exc = "none"
    /\ Head(pc) \in BlockedWaits
    /\ pins # KEYPAD_RELEASED
    /\ pins' = KEYPAD_RELEASED
    /\ press' = IF press = "held" THEN "missed" ELSE press
    /\ heldOver' = FALSE
    /\ UNCHANGED <<pc, excVars, ret, lamps, timer, sd, cacheVars, runVars, read,
                   idleVars, blink, playVars, sawReleased, inputVars, unwound,
                   gpio, todo>>

\* the deadline the main thread is running against, in seconds
InFunction(labels) == \E i \in DOMAIN pc : pc[i] \in labels

Deadline ==
    IF InFunction({"prompt_loop", "prompt_sleep"}) THEN KEYPAD_TIMEOUT
    ELSE IF InFunction({"idle_wait"}) THEN IDLE_ANIMATION_INTERVAL
    ELSE SOUNDBOARD_TIMEOUT

\* labels at which the main thread sleeps or busy-waits under a deadline
TimedWaits ==
    {"prompt_sleep", "idle_wait", "sb_sleep", "deb_sleep1", "deb_wait", "deb_sleep2"}

Tick ==
    /\ Running
    /\ exc = "none"
    /\ Head(pc) \in TimedWaits
    /\ InFunction({"prompt_sleep", "idle_wait", "sb_sleep", "sb_loop"})
    /\ timer <= Deadline
    /\ timer' = timer + TickSeconds
    /\ UNCHANGED <<pc, excVars, ret, lamps, pins, sd, cacheVars, runVars, read,
                   idleVars, blink, playVars, sawReleased, fixedVars>>

---------------------------------------------------------------------------
(* debounce_and_await_release *)

\* faulty variant of released: the loop does not wait
released_unchecked(p) == TRUE

\* the loop condition's exit: the raw pins read released
released(p) == p = KEYPAD_RELEASED

DebounceLampsOn ==
    /\ At("deb_on")
    /\ lamps' = set_all_lamps(LAMP_ON)
    /\ sawReleased' = FALSE
    /\ Goto("deb_sleep1")
    /\ UNCHANGED <<excVars, ret, pins, timer, sd, cacheVars, runVars, read,
                   idleVars, blink, playVars, fixedVars>>

DebounceSleep ==
    /\ At("deb_sleep1")
    /\ Goto("deb_wait")
    /\ UNCHANGED <<excVars, ret, lamps, pins, timer, sd, cacheVars, runVars, read,
                   idleVars, blink, playVars, sawReleased, fixedVars>>

DebounceAwaitRelease ==
    /\ At("deb_wait")
    /\ released(pins)
    /\ sawReleased' = (pins = KEYPAD_RELEASED)
    /\ Goto("deb_sleep2")
    /\ UNCHANGED <<excVars, ret, lamps, pins, timer, sd, cacheVars, runVars, read,
                   idleVars, blink, playVars, fixedVars>>

\* faulty variant of DebounceLampsOff: the lamps are left lit
DebounceLampsStayOn ==
    /\ At("deb_sleep2")
    /\ pc' = Tail(pc)
    /\ sd' = Silent
    /\ UNCHANGED <<excVars, ret, lamps, pins, timer, cacheVars, runVars, read,
                   idleVars, blink, playVars, sawReleased, fixedVars>>

DebounceLampsOff ==
    /\ At("deb_sleep2")
    /\ lamps' = set_all_lamps(LAMP_OFF)
    /\ pc' = Tail(pc)
    /\ sd' = Silent
    /\ UNCHANGED <<excVars, ret, pins, timer, cacheVars, runVars, read,
                   idleVars, blink, playVars, sawReleased, fixedVars>>

---------------------------------------------------------------------------
(* prompt_keypad_input *)

\* time.time() > timeout_in
prompt_timed_out(t) == t > KEYPAD_TIMEOUT

PromptStart ==
    /\ At("prompt_start")
    /\ timer' = 0
    /\ Goto("prompt_loop")
    /\ UNCHANGED <<excVars, ret, lamps, pins, sd, cacheVars, runVars, read,
                   idleVars, blink, playVars, sawReleased, fixedVars>>

PromptTimeout ==
    /\ At("prompt_loop")
    /\ prompt_timed_out(timer)
    /\ pc' = Tail(pc)
    /\ ret' = <<"prompt_keypad_input", None>>
    /\ UNCHANGED <<excVars, lamps, pins, timer, sd, cacheVars, runVars, read,
                   idleVars, blink, playVars, sawReleased, fixedVars>>

PromptRead ==
    /\ At("prompt_loop")
    /\ ~prompt_timed_out(timer)
    /\ \E k \in Reads(pins) :
        /\ read' = k
        /\ IF k # None
           THEN /\ sd' = play_asset("PRESS", sd)
                /\ timer' = 0
                /\ Call("deb_on", "prompt_deb")
           ELSE /\ sd' = sd
                /\ timer' = timer
                /\ Goto("prompt_sleep")
    /\ UNCHANGED <<excVars, ret, lamps, pins, cacheVars, runVars,
                   idleVars, blink, playVars, sawReleased, fixedVars>>

PromptSleep ==
    /\ At("prompt_sleep")
    /\ Goto("prompt_loop")
    /\ UNCHANGED <<excVars, ret, lamps, pins, timer, sd, cacheVars, runVars, read,
                   idleVars, blink, playVars, sawReleased, fixedVars>>

PromptReturn ==
    /\ At("prompt_deb")
    /\ pc' = Tail(pc)
    /\ ret' = <<"prompt_keypad_input", read>>
    /\ read' = None
    /\ UNCHANGED <<excVars, lamps, pins, timer, sd, cacheVars, runVars,
                   idleVars, blink, playVars, sawReleased, fixedVars>>

---------------------------------------------------------------------------
(* idle *)

write_frame(f) == <<f[1], f[2], f[3]>>

\* faulty variant of IdleStart: every call starts with the animation
IdleStartAnimates ==
    /\ At("idle_start")
    /\ skip' = FALSE
    /\ Goto("idle_top")
    /\ UNCHANGED <<excVars, ret, lamps, pins, timer, sd, cacheVars, runVars, read,
                   frame, blink, playVars, sawReleased, fixedVars>>

IdleStart ==
    /\ At("idle_start")
    /\ skip' = ~boot
    /\ Goto("idle_top")
    /\ UNCHANGED <<excVars, ret, lamps, pins, timer, sd, cacheVars, runVars, read,
                   frame, blink, playVars, sawReleased, fixedVars>>

\* top of the while loop: the first frame of the animation, or the wait
IdleTop ==
    /\ At("idle_top")
    /\ IF ~skip
       THEN /\ frame' = 1
            /\ lamps' = write_frame(TETRIS[1])
            /\ Goto("idle_frame")
            /\ UNCHANGED <<skip, timer>>
       ELSE /\ skip' = FALSE
            /\ timer' = 0
            /\ Goto("idle_wait")
            /\ UNCHANGED <<frame, lamps>>
    /\ UNCHANGED <<excVars, ret, pins, sd, cacheVars, runVars, read,
                   blink, playVars, sawReleased, fixedVars>>

\* key_pressed_check() finds a key: feedback, then debounce
IdleKeyPressed ==
    /\ \/ At("idle_frame")
       \/ At("idle_wait") /\ timer < IDLE_ANIMATION_INTERVAL
    /\ \E k \in Reads(pins) \ {None} :
        /\ read' = k
        /\ sd' = play_asset("PRESS", sd)
        /\ Call("deb_on", "idle_deb")
    /\ frame' = 0 /\ skip' = FALSE /\ timer' = 0
    /\ UNCHANGED <<excVars, ret, lamps, pins, cacheVars, runVars,
                   blink, playVars, sawReleased, fixedVars>>

\* the 0.25 s of a frame are over without a key
IdleFrameElapsed ==
    /\ At("idle_frame")
    /\ IF frame < Len(TETRIS)
       THEN /\ frame' = frame + 1
            /\ lamps' = write_frame(TETRIS[frame + 1])
            /\ UNCHANGED <<pc, skip, timer>>
       ELSE /\ frame' = 0
            /\ lamps' = set_all_lamps(LAMP_OFF)
            /\ skip' = FALSE
            /\ timer' = 0
            /\ Goto("idle_wait")
    /\ UNCHANGED <<excVars, ret, pins, sd, cacheVars, runVars, read,
                   blink, playVars, sawReleased, fixedVars>>

IdleRetrigger ==
    /\ At("idle_wait")
    /\ ~(timer < IDLE_ANIMATION_INTERVAL)
    /\ Goto("idle_top")
    /\ UNCHANGED <<excVars, ret, lamps, pins, timer, sd, cacheVars, runVars, read,
                   idleVars, blink, playVars, sawReleased, fixedVars>>

IdleReturn ==
    /\ At("idle_deb")
    /\ pc' = Tail(pc)
    /\ ret' = <<"idle", read>>
    /\ read' = None
    /\ UNCHANGED <<excVars, lamps, pins, timer, sd, cacheVars, runVars,
                   idleVars, blink, playVars, sawReleased, fixedVars>>

---------------------------------------------------------------------------
(* clear_animation *)

ClearLampsOn ==
    /\ At("clr_loop")
    /\ lamps' = set_all_lamps(LAMP_ON)
    /\ Goto("clr_on")
    /\ UNCHANGED <<excVars, ret, pins, timer, sd, cacheVars, runVars, read,
                   idleVars, blink, playVars, sawReleased, fixedVars>>

ClearLampsOff ==
    /\ At("clr_on")
    /\ lamps' = set_all_lamps(LAMP_OFF)
    /\ Goto("clr_off")
    /\ UNCHANGED <<excVars, ret, pins, timer, sd, cacheVars, runVars, read,
                   idleVars, blink, playVars, sawReleased, fixedVars>>

ClearNext ==
    /\ At("clr_off")
    /\ IF blink + 1 < 3
       THEN blink' = blink + 1 /\ Goto("clr_loop")
       ELSE blink' = 0 /\ pc' = Tail(pc)
    /\ UNCHANGED <<excVars, ret, lamps, pins, timer, sd, cacheVars, runVars, read,
                   idleVars, playVars, sawReleased, fixedVars>>

---------------------------------------------------------------------------
(* run *)

\* the locals of a fresh play(n) call
EnterPlay(n) ==
    /\ number' = n
    /\ spath' = NoFile
    /\ bpm' = 0
    /\ proc' = "none"
    /\ aborted' = FALSE
    /\ load_thread' = "none"
    /\ lights' = NoLights
    /\ stop_event' = FALSE
    /\ trace' = <<>>

\* reserved_track_numbers
reserved_track_numbers(dir) == {int(f.prefix) : f \in {g \in dir : g.ext = "mp3"}}

RunPreload ==
    /\ At("run_preload")
    /\ asset_samples' = preload_assets(assets)
    /\ todo' = {}
    /\ Call("idle_start", "run_idle")
    /\ UNCHANGED <<excVars, ret, lamps, pins, timer, sd, soundboard_samples, bank,
                   runVars, read, idleVars, blink, playVars, sawReleased, inputVars,
                   unwound, gpio,
                   press, heldOver>>

\* faulty variant of RunAfterIdle: the key idle() returned is dropped and
\* the first key is prompted for
RunAfterIdlePrompts ==
    /\ At("run_idle")
    /\ key' = Dead
    /\ boot' = FALSE
    /\ input' = <<>>
    /\ ret' = <<>>
    /\ Call("prompt_start", "run_prompt")
    /\ UNCHANGED <<excVars, lamps, pins, timer, sd, cacheVars, read,
                   idleVars, blink, playVars, sawReleased, fixedVars>>

\* key = idle(boot); boot = False; input = ""
RunAfterIdle ==
    /\ At("run_idle")
    /\ key' = ret[2]
    /\ boot' = FALSE
    /\ input' = <<>>
    /\ ret' = <<>>
    /\ Goto("run_eval")
    /\ UNCHANGED <<excVars, lamps, pins, timer, sd, cacheVars, read,
                   idleVars, blink, playVars, sawReleased, fixedVars>>

\* faulty variant of append_key: key + input
prepend_key(buf, k) == <<k>> \o buf

\* input += key
append_key(buf, k) == Append(buf, k)

RunDigit ==
    /\ At("run_eval")
    /\ key \in Digits
    /\ Len(input) < MaxDigits
    /\ input' = append_key(input, key)
    /\ Call("prompt_start", "run_prompt")
    /\ UNCHANGED <<excVars, ret, lamps, pins, timer, sd, cacheVars, key, boot, read,
                   idleVars, blink, playVars, sawReleased, fixedVars>>

\* faulty variant of RunReset: the buffer is kept
RunResetKeepsBuffer ==
    /\ At("run_eval")
    /\ key = "R" /\ input # <<>>
    /\ blink' = 0
    /\ Call("clr_loop", "run_next")
    /\ UNCHANGED <<excVars, ret, lamps, pins, timer, sd, cacheVars, runVars, read,
                   idleVars, playVars, sawReleased, fixedVars>>

\* elif key == "R" and input: input = ""; clear_animation()
RunReset ==
    /\ At("run_eval")
    /\ key = "R" /\ input # <<>>
    /\ input' = <<>>
    /\ blink' = 0
    /\ Call("clr_loop", "run_next")
    /\ UNCHANGED <<excVars, ret, lamps, pins, timer, sd, cacheVars, key, boot, read,
                   idleVars, playVars, sawReleased, fixedVars>>

RunConfirm ==
    /\ At("run_eval")
    /\ key = "G" /\ input # <<>>
    /\ EnterPlay(int(input))
    /\ Call("play_start", "run_play")
    /\ key' = Dead /\ input' = <<Dead>>
    /\ UNCHANGED <<excVars, ret, lamps, pins, timer, sd, cacheVars, boot, read,
                   idleVars, blink, sawReleased, fixedVars>>

RunShuffle ==
    /\ At("run_eval")
    /\ key = "BLUE"
    /\ Goto("run_shuffle")
    /\ key' = Dead /\ input' = <<Dead>>
    /\ UNCHANGED <<excVars, ret, lamps, pins, timer, sd, cacheVars, boot, read,
                   idleVars, blink, playVars, sawReleased, fixedVars>>

\* play(random.choice(reserved_track_numbers()))
RunShufflePlay ==
    /\ At("run_shuffle")
    /\ IF reserved_track_numbers(songs.files) = {}
       THEN Raise("IndexError")
       ELSE /\ \E n \in reserved_track_numbers(songs.files) : EnterPlay(n)
            /\ Call("play_start", "run_shuffle_ret")
            /\ UNCHANGED <<excVars, ret, lamps, pins, timer, sd, cacheVars, runVars,
                           read, idleVars, blink, sawReleased, fixedVars>>

\* faulty variant of RunShuffleAfterPlay: only an abort ends the loop
RunShuffleUntilAborted ==
    /\ At("run_shuffle_ret")
    /\ IF ret[2] # "ABORTED"
       THEN Goto("run_shuffle") /\ ret' = <<>>
       ELSE Goto("run_break") /\ ret' = <<>>
    /\ UNCHANGED <<excVars, lamps, pins, timer, sd, cacheVars, runVars, read,
                   idleVars, blink, playVars, sawReleased, fixedVars>>

\* while play(...) == PlayReturn.FINISHED: pass; then break
RunShuffleAfterPlay ==
    /\ At("run_shuffle_ret")
    /\ IF ret[2] = "FINISHED"
       THEN Goto("run_shuffle") /\ ret' = <<>>
       ELSE Goto("run_break") /\ ret' = <<>>
    /\ UNCHANGED <<excVars, lamps, pins, timer, sd, cacheVars, runVars, read,
                   idleVars, blink, playVars, sawReleased, fixedVars>>

RunSoundboard ==
    /\ At("run_eval")
    /\ key = "YELLOW"
    /\ Call("sb_start", "run_break")
    /\ key' = Dead /\ input' = <<Dead>>
    /\ UNCHANGED <<excVars, ret, lamps, pins, timer, sd, cacheVars, boot, read,
                   idleVars, blink, playVars, sawReleased, fixedVars>>

\* faulty variant of RunTimeout: clear_animation() whatever the buffer holds
RunTimeoutAlwaysBlinks ==
    /\ At("run_eval")
    /\ key = None
    /\ blink' = 0 /\ Call("clr_loop", "run_break")
    /\ key' = Dead /\ input' = <<Dead>>
    /\ UNCHANGED <<excVars, ret, lamps, pins, timer, sd, cacheVars, boot, read,
                   idleVars, playVars, sawReleased, fixedVars>>

\* elif key is None: if input: clear_animation(); break
RunTimeout ==
    /\ At("run_eval")
    /\ key = None
    /\ IF input # <<>>
       THEN blink' = 0 /\ Call("clr_loop", "run_break")
       ELSE blink' = blink /\ Goto("run_break")
    /\ key' = Dead /\ input' = <<Dead>>
    /\ UNCHANGED <<excVars, ret, lamps, pins, timer, sd, cacheVars, boot, read,
                   idleVars, playVars, sawReleased, fixedVars>>

\* faulty variant of RunIgnore: an unmatched key ends Entry
RunIgnoreBreaks ==
    /\ At("run_eval")
    /\ \/ key = "RED"
       \/ key \in {"R", "G"} /\ input = <<>>
    /\ Goto("run_break")
    /\ UNCHANGED <<excVars, ret, lamps, pins, timer, sd, cacheVars, runVars, read,
                   idleVars, blink, playVars, sawReleased, fixedVars>>

\* no branch of the if/elif chain matches
RunIgnore ==
    /\ At("run_eval")
    /\ \/ key = "RED"
       \/ key \in {"R", "G"} /\ input = <<>>
    /\ Goto("run_next")
    /\ UNCHANGED <<excVars, ret, lamps, pins, timer, sd, cacheVars, runVars, read,
                   idleVars, blink, playVars, sawReleased, fixedVars>>

\* key = prompt_keypad_input()
RunNext ==
    /\ At("run_next")
    /\ Call("prompt_start", "run_prompt")
    /\ UNCHANGED <<excVars, ret, lamps, pins, timer, sd, cacheVars, runVars, read,
                   idleVars, blink, playVars, sawReleased, fixedVars>>

RunAfterPrompt ==
    /\ At("run_prompt")
    /\ key' = ret[2]
    /\ ret' = <<>>
    /\ timer' = 0
    /\ Goto("run_eval")
    /\ UNCHANGED <<excVars, lamps, pins, sd, cacheVars, input, boot, read,
                   idleVars, blink, playVars, sawReleased, fixedVars>>

\* play(int(input)) has returned: break
RunAfterPlay ==
    /\ At("run_play")
    /\ Goto("run_break")
    /\ ret' = <<>>
    /\ UNCHANGED <<excVars, lamps, pins, timer, sd, cacheVars, runVars, read,
                   idleVars, blink, playVars, sawReleased, fixedVars>>

\* break: the outer loop calls idle(boot) again; the locals of the last
\* play() call are gone
RunBreak ==
    /\ At("run_break")
    /\ EnterPlay(0)
    /\ Call("idle_start", "run_idle")
    /\ UNCHANGED <<excVars, ret, lamps, pins, timer, sd, cacheVars, runVars, read,
                   idleVars, blink, sawReleased, fixedVars>>

---------------------------------------------------------------------------
(* play *)

Log(e) == trace' = Append(trace, e)

\* faulty variant of terminate: the signal is not sent
terminate_ignored(p) == p

\* proc.terminate()
terminate(p) == IF p = "running" THEN "terminated" ELSE p

\* spath = song_path(number), then the lamps go on in either branch
PlayStart ==
    /\ At("play_start")
    /\ \E f \in song_path(songs.files, number) :
        /\ spath' = f
        /\ IF f = NoFile THEN Goto("play_nf") ELSE Goto("play_load")
    /\ lamps' = set_all_lamps(LAMP_ON)
    /\ UNCHANGED <<excVars, ret, pins, timer, sd, cacheVars, runVars, read, idleVars,
                   blink, number, bpm, proc, aborted, load_thread, lights,
                   stop_event, trace, sawReleased, fixedVars>>

\* play_asset("TRACK_NOT_FOUND"), which waits for the end of the sound
PlayNotFound ==
    /\ At("play_nf")
    /\ Log("play_asset TRACK_NOT_FOUND")
    /\ sd' = play_asset("TRACK_NOT_FOUND", sd)
    /\ IF "TRACK_NOT_FOUND" \in asset_samples
       THEN Call("asset_wait", "play_nf_off")
       ELSE Goto("play_nf_off")
    /\ UNCHANGED <<excVars, ret, lamps, pins, timer, cacheVars, runVars, read,
                   idleVars, blink, number, spath, bpm, proc, aborted, load_thread,
                   lights, stop_event, sawReleased, fixedVars>>

\* sd.wait() of a blocking play_asset returns
AssetWaitDone ==
    /\ At("asset_wait")
    /\ pc' = Tail(pc)
    /\ sd' = Silent
    /\ UNCHANGED <<excVars, ret, lamps, pins, timer, cacheVars, runVars, read,
                   idleVars, blink, playVars, sawReleased, fixedVars>>

\* faulty variant of PlayNotFoundReturn: set_all_lamps(LAMP_OFF) is left out
PlayNotFoundReturnLit ==
    /\ At("play_nf_off")
    /\ pc' = Tail(pc)
    /\ ret' = <<"play", "TRACK_NOT_FOUND">>
    /\ UNCHANGED <<excVars, lamps, pins, timer, sd, cacheVars, runVars, read,
                   idleVars, blink, playVars, sawReleased, fixedVars>>

\* set_all_lamps(LAMP_OFF); return PlayReturn.TRACK_NOT_FOUND
PlayNotFoundReturn ==
    /\ At("play_nf_off")
    /\ lamps' = set_all_lamps(LAMP_OFF)
    /\ pc' = Tail(pc)
    /\ ret' = <<"play", "TRACK_NOT_FOUND">>
    /\ UNCHANGED <<excVars, pins, timer, sd, cacheVars, runVars, read,
                   idleVars, blink, playVars, sawReleased, fixedVars>>

\* load_sample_thread.start()
PlayLoadStart ==
    /\ At("play_load")
    /\ load_thread' = "started"
    /\ Log("load_sample_thread.start")
    /\ Goto("play_bpm")
    /\ UNCHANGED <<excVars, ret, lamps, pins, timer, sd, cacheVars, runVars, read,
                   idleVars, blink, number, spath, bpm, proc, aborted,
                   lights, stop_event, sawReleased, fixedVars>>

\* the LOAD thread: play_asset("LOAD") starts the sound and waits for it
LoadThreadPlay ==
    /\ load_thread = "started"
    /\ sd' = play_asset("LOAD", sd)
    /\ load_thread' = IF "LOAD" \in asset_samples THEN "playing" ELSE "done"
    /\ UNCHANGED <<pc, excVars, ret, lamps, pins, timer, cacheVars, runVars, read,
                   idleVars, blink, number, spath, bpm, proc, aborted,
                   lights, stop_event, trace, sawReleased, fixedVars>>

LoadThreadDone ==
    /\ load_thread = "playing"
    /\ load_thread' = "done"
    /\ sd' = Silent
    /\ UNCHANGED <<pc, excVars, ret, lamps, pins, timer, cacheVars, runVars, read,
                   idleVars, blink, number, spath, bpm, proc, aborted,
                   lights, stop_event, trace, sawReleased, fixedVars>>

\* bpm = bpm_tag(spath): subprocess.run raises when bpm-tag is not installed
PlayBpm ==
    /\ At("play_bpm")
    /\ \E run \in BpmToolRuns :
        IF run.found
        THEN /\ bpm' = bpm_tag(run.numbers)
             /\ Log("bpm_tag")
             /\ Goto("play_join")
             /\ UNCHANGED <<excVars, ret, lamps, pins, timer, sd, cacheVars, runVars,
                            read, idleVars, blink, number, spath, proc, aborted,
                            load_thread, lights, stop_event, sawReleased, fixedVars>>
        ELSE Raise("FileNotFoundError")

\* faulty variant of joined: join() returns at once
joined_at_once(thread_state) == TRUE

\* load_sample_thread.join() returns once the thread has ended
joined(thread_state) == thread_state = "done"

PlayJoin ==
    /\ At("play_join")
    /\ joined(load_thread)
    /\ Log("load_sample_thread.join")
    /\ Goto("play_song")
    /\ press' = "none"
    /\ UNCHANGED <<excVars, ret, lamps, pins, timer, sd, cacheVars, runVars, read,
                   idleVars, blink, number, spath, bpm, proc, aborted, load_thread,
                   lights, stop_event, sawReleased, inputVars, unwound, gpio, todo,
                   heldOver>>

\* proc = play_song(spath, blocking=False): None when Popen fails
play_song(launch) == IF launch = "started" THEN "running" ELSE "None"

PlaySong ==
    /\ At("play_song")
    /\ \E launch \in PlayerLaunches :
        /\ proc' = play_song(launch)
        /\ Log(IF launch = "started" THEN "Popen ffplay" ELSE "Popen failed")
    /\ spath' = DeadFile
    /\ Goto("play_lights")
    /\ UNCHANGED <<excVars, ret, lamps, pins, timer, sd, cacheVars, runVars, read,
                   idleVars, blink, number, bpm, aborted, load_thread,
                   lights, stop_event, sawReleased, fixedVars>>

\* stop_event = Event(); lights_thread.start()
PlayLightsStart ==
    /\ At("play_lights")
    /\ stop_event' = FALSE
    /\ lights' = [NoLights EXCEPT !.pc = "while"]
    /\ bpm' = 0
    /\ Log("lights_thread.start")
    /\ Goto("play_try")
    /\ UNCHANGED <<excVars, ret, lamps, pins, timer, sd, cacheVars, runVars, read,
                   idleVars, blink, number, spath, proc, aborted, load_thread,
                   sawReleased, fixedVars>>

\* faulty variant of PlayTry: set_all_lamps(LAMP_ON) after the thread start
PlayTryLampsOn ==
    /\ At("play_try")
    /\ aborted' = FALSE
    /\ lamps' = set_all_lamps(LAMP_ON)
    /\ Goto("play_poll")
    /\ UNCHANGED <<excVars, ret, pins, timer, sd, cacheVars, runVars, read,
                   idleVars, blink, number, spath, bpm, proc, load_thread, lights,
                   stop_event, trace, sawReleased, fixedVars>>

\* aborted = False; the try statement is entered
PlayTry ==
    /\ At("play_try")
    /\ aborted' = FALSE
    /\ Goto("play_poll")
    /\ UNCHANGED <<excVars, ret, lamps, pins, timer, sd, cacheVars, runVars, read,
                   idleVars, blink, number, spath, bpm, proc, load_thread, lights,
                   stop_event, trace, sawReleased, fixedVars>>

\* while proc.poll() is None: proc is None when the player was not launched
PlayPoll ==
    /\ At("play_poll")
    /\ IF proc = "None"
       THEN Raise("AttributeError")
       ELSE /\ Goto(IF proc = "running" THEN "play_read" ELSE "play_fin")
            /\ UNCHANGED <<excVars, ret, lamps, pins, timer, sd, cacheVars, runVars,
                           read, idleVars, blink, playVars, sawReleased, fixedVars>>

\* if read_keypad_input() == "RED": terminate, aborted = True, break
PlayRead ==
    /\ At("play_read")
    /\ \E k \in Reads(pins) :
        IF k = "RED"
        THEN /\ proc' = terminate(proc)
             /\ aborted' = TRUE
             /\ Log("proc.terminate")
             /\ Goto("play_fin")
        ELSE /\ Goto("play_poll")
             /\ UNCHANGED <<proc, aborted, trace>>
    /\ UNCHANGED <<excVars, ret, lamps, pins, timer, sd, cacheVars, runVars, read,
                   idleVars, blink, number, spath, bpm, load_thread, lights,
                   stop_event, sawReleased, fixedVars>>

\* the player reaches the end of the file
PlayerExit ==
    /\ Running
    /\ Head(pc) \in {"play_poll", "play_read"}
    /\ proc = "running"
    /\ proc' = "exited"
    /\ UNCHANGED <<pc, excVars, ret, lamps, pins, timer, sd, cacheVars, runVars, read,
                   idleVars, blink, number, spath, bpm, aborted, load_thread,
                   lights, stop_event, trace, sawReleased, fixedVars>>

\* finally: stop_event.set()
PlayFinally ==
    /\ At("play_fin")
    /\ stop_event' = TRUE
    /\ Log("stop_event.set")
    /\ Goto("play_fin_join")
    /\ UNCHANGED <<excVars, ret, lamps, pins, timer, sd, cacheVars, runVars, read,
                   idleVars, blink, number, spath, bpm, proc, aborted, load_thread,
                   lights, sawReleased, fixedVars>>

\* faulty variant of PlayFinallyJoin: no debounce after an abort
PlayFinallyNoSettle ==
    /\ At("play_fin_join")
    /\ joined(lights.pc)
    /\ lamps' = set_all_lamps(LAMP_OFF)
    /\ Log("lights_thread.join")
    /\ Goto("play_fin_end")
    /\ UNCHANGED <<excVars, ret, pins, timer, sd, cacheVars, runVars, read,
                   idleVars, blink, number, spath, bpm, proc, aborted, load_thread,
                   lights, stop_event, sawReleased, fixedVars>>

\* faulty variant of PlayFinallyJoin: lights_thread.join() is left out
PlayFinallyNoJoin ==
    /\ At("play_fin_join")
    /\ lamps' = set_all_lamps(LAMP_OFF)
    /\ Log("lights_thread.join")
    /\ IF aborted
       THEN \E k \in Reads(pins) :
                IF k = "RED"
                THEN Call("deb_on", "play_fin_end")
                ELSE Goto("play_fin_sleep")
       ELSE Goto("play_fin_end")
    /\ UNCHANGED <<excVars, ret, pins, timer, sd, cacheVars, runVars, read,
                   idleVars, blink, number, spath, bpm, proc, aborted, load_thread,
                   lights, stop_event, sawReleased, fixedVars>>

\* lights_thread.join(); set_all_lamps(LAMP_OFF); the debounce after an abort
PlayFinallyJoin ==
    /\ At("play_fin_join")
    /\ joined(lights.pc)
    /\ lamps' = set_all_lamps(LAMP_OFF)
    /\ Log("lights_thread.join")
    /\ IF aborted
       THEN \E k \in Reads(pins) :
                IF k = "RED"
                THEN Call("deb_on", "play_fin_end")
                ELSE Goto("play_fin_sleep")
       ELSE Goto("play_fin_end")
    /\ UNCHANGED <<excVars, ret, pins, timer, sd, cacheVars, runVars, read,
                   idleVars, blink, number, spath, bpm, proc, aborted, load_thread,
                   lights, stop_event, sawReleased, fixedVars>>

PlayFinallySleep ==
    /\ At("play_fin_sleep")
    /\ Goto("play_fin_end")
    /\ UNCHANGED <<excVars, ret, lamps, pins, timer, sd, cacheVars, runVars, read,
                   idleVars, blink, playVars, sawReleased, fixedVars>>

\* the end of the finally block: the exception it interrupted goes on, or
\* play returns ABORTED or FINISHED
PlayReturn ==
    /\ At("play_fin_end")
    /\ IF pending # "none"
       THEN Uncaught(pending)
       ELSE /\ pc' = Tail(pc)
            /\ ret' = <<"play", IF aborted THEN "ABORTED" ELSE "FINISHED">>
            /\ UNCHANGED <<excVars, lamps, pins, timer, sd, cacheVars, runVars, read,
                           idleVars, blink, playVars, sawReleased, fixedVars>>

---------------------------------------------------------------------------
(* random_lights_thread *)

LightsUnchanged ==
    UNCHANGED <<pc, excVars, ret, pins, timer, sd, cacheVars, runVars, read,
                idleVars, blink, number, spath, bpm, proc, aborted, load_thread,
                stop_event, trace, sawReleased, fixedVars>>

\* after the frame loop of one repetition: the next repetition, or the while
AfterFrames(l) ==
    IF l.rep < l.mult
    THEN [l EXCEPT !.rep = l.rep + 1, !.frame = 1, !.pc = "frame"]
    ELSE [l EXCEPT !.pc = "while", !.pattern = 0, !.mult = 0, !.rep = 0, !.frame = 0]

\* while not stop_event.is_set()
LightsWhile ==
    /\ lights.pc = "while"
    /\ lights' = IF stop_event THEN [NoLights EXCEPT !.pc = "done"]
                 ELSE [lights EXCEPT !.pc = "choose"]
    /\ lamps' = lamps
    /\ LightsUnchanged

\* pattern = random.choice(ALL_LIGHT_PATTERNS); bpm_multiplier =
\* random.choice([1, 2]); the first repetition begins
LightsChoose ==
    /\ lights.pc = "choose"
    /\ \E p \in 1..MaxPatterns, m \in {1, 2} :
           lights' = [pc |-> "frame", pattern |-> p, mult |-> m, rep |-> 1,
                      frame |-> 1]
    /\ lamps' = lamps
    /\ LightsUnchanged

\* faulty variant of LightsFrame: the stop flag is not checked between frames
LightsFrameUnchecked ==
    /\ lights.pc = "frame"
    /\ lights' = [lights EXCEPT !.pc = "write"]
    /\ lamps' = lamps
    /\ LightsUnchanged

\* if stop_event.is_set(): break
LightsFrame ==
    /\ lights.pc = "frame"
    /\ lights' = IF stop_event THEN AfterFrames(lights)
                 ELSE [lights EXCEPT !.pc = "write"]
    /\ lamps' = lamps
    /\ LightsUnchanged

\* the three GPIO.output calls of the frame, then time.sleep(delay)
LightsWrite ==
    /\ lights.pc = "write"
    /\ lamps' = write_frame(ALL_LIGHT_PATTERNS[lights.pattern][lights.frame])
    /\ lights' = IF lights.frame < Len(ALL_LIGHT_PATTERNS[lights.pattern])
                 THEN [lights EXCEPT !.frame = lights.frame + 1, !.pc = "frame"]
                 ELSE AfterFrames(lights)
    /\ LightsUnchanged

---------------------------------------------------------------------------
(* Soundboard: the bank directories and preload_soundboard_samples *)

\* a file <prefix>_<title>.wav of a bank directory
SampleFile(prefix, framerate, decodes) ==
    [prefix |-> prefix, framerate |-> framerate, decodes |-> decodes]

\* no directory for a bank
NoBank == {SampleFile("not a directory", 0, FALSE)}

\* JUKEBOX_SOUNDBOARD_PATH/<bank>: the files of each bank directory
BankDirs ==
    [b \in 0..MAX_BANK_NUMBER |->
        CASE b = 0 -> { SampleFile("0", 44100, TRUE), SampleFile("r", 48000, TRUE),
                        SampleFile("7", 22050, TRUE), SampleFile("INTRO", 44100, TRUE) }
          [] b = 1 -> NoBank
          [] b = 2 -> { SampleFile("G", 44100, TRUE) }
          [] b = MAX_BANK_NUMBER -> { SampleFile("7", 44100, TRUE),
                                      SampleFile("G", 48000, FALSE) }
          [] OTHER -> {}]

\* str.upper() on the prefixes in use
upper(x) == IF x = "r" THEN "R" ELSE x

\* key_match.isdigit() or key_match in {"R", "G", "RED", "BLUE"}
supported_key(x) == x \in Digits \/ x \in {"R", "G", "RED", "BLUE"}

\* faulty variant of preload_soundboard_samples: the cache is not cleared
preload_soundboard_samples_merged(dir, b, cached) ==
    IF dir = NoBank THEN cached
    ELSE LET loaded == {f \in dir : /\ supported_key(upper(f.prefix))
                                    /\ f.framerate \in {44100, 48000}
                                    /\ f.decodes}
             keys == {upper(f.prefix) : f \in loaded}
         IN IF keys \cup DOMAIN cached = {} THEN <<>>
            ELSE [k \in keys \cup DOMAIN cached |->
                     IF k \in keys THEN b ELSE cached[k]]

\* the soundboard_samples that preload_soundboard_samples(b) leaves, given
\* the bank directory and the samples cached before
preload_soundboard_samples(dir, b, cached) ==
    IF dir = NoBank THEN cached
    ELSE LET loaded == {f \in dir : /\ supported_key(upper(f.prefix))
                                    /\ f.framerate \in {44100, 48000}
                                    /\ f.decodes}
         IN IF loaded = {} THEN <<>>
            ELSE [k \in {upper(f.prefix) : f \in loaded} |-> b]

\* faulty variant of play_sample: no fallback to the MISSING asset
play_sample_no_fallback(k, device) ==
    IF k \in DOMAIN soundboard_samples THEN Sound("sample", k, soundboard_samples[k])
    ELSE device

\* play_sample(key, wait=False): what the sound device renders afterwards
play_sample(k, device) ==
    IF k \in DOMAIN soundboard_samples THEN Sound("sample", k, soundboard_samples[k])
    ELSE IF "MISSING" \in asset_samples THEN Sound("asset", "MISSING", 0)
    ELSE device

PreloadLampsOn ==
    /\ At("pre_on")
    /\ lamps' = set_all_lamps(LAMP_ON)
    /\ Goto("pre_load")
    /\ UNCHANGED <<excVars, ret, pins, timer, sd, cacheVars, runVars, read,
                   idleVars, blink, playVars, sawReleased, fixedVars>>

PreloadLoad ==
    /\ At("pre_load")
    /\ soundboard_samples' =
           preload_soundboard_samples(BankDirs[bank], bank, soundboard_samples)
    /\ lamps' = set_all_lamps(LAMP_OFF)
    /\ pc' = Tail(pc)
    /\ UNCHANGED <<excVars, ret, pins, timer, sd, asset_samples, bank, runVars, read,
                   idleVars, blink, playVars, sawReleased, fixedVars>>

---------------------------------------------------------------------------
(* soundboard *)

SbStart ==
    /\ At("sb_start")
    /\ bank' = 0
    /\ Call("pre_on", "sb_arm")
    /\ UNCHANGED <<excVars, ret, lamps, pins, timer, sd, asset_samples,
                   soundboard_samples, runVars, read, idleVars, blink, playVars,
                   sawReleased, fixedVars>>

\* timeout = time.time() + SOUNDBOARD_TIMEOUT, before the loop
SbArm ==
    /\ At("sb_arm")
    /\ timer' = 0
    /\ Goto("sb_loop")
    /\ UNCHANGED <<excVars, ret, lamps, pins, sd, cacheVars, runVars, read,
                   idleVars, blink, playVars, sawReleased, fixedVars>>

\* time.time() > timeout
soundboard_timed_out(t) == t > SOUNDBOARD_TIMEOUT

SbTimeout ==
    /\ At("sb_loop")
    /\ soundboard_timed_out(timer)
    /\ pc' = Tail(pc)
    /\ timer' = 0
    /\ bank' = 0
    /\ read' = None
    /\ UNCHANGED <<excVars, ret, lamps, pins, sd, asset_samples, soundboard_samples,
                   runVars, idleVars, blink, playVars, sawReleased, fixedVars>>

\* no key: time.sleep(0.1); continue
SbNoKey ==
    /\ At("sb_loop")
    /\ ~soundboard_timed_out(timer)
    /\ None \in Reads(pins)
    /\ read' = None
    /\ Goto("sb_sleep")
    /\ UNCHANGED <<excVars, ret, lamps, pins, timer, sd, cacheVars, runVars,
                   idleVars, blink, playVars, sawReleased, fixedVars>>

SbSleep ==
    /\ At("sb_sleep")
    /\ Goto("sb_loop")
    /\ UNCHANGED <<excVars, ret, lamps, pins, timer, sd, cacheVars, runVars, read,
                   idleVars, blink, playVars, sawReleased, fixedVars>>

\* YELLOW: the press chirp and the first lamps-on of the exit blink
SbExit ==
    /\ At("sb_loop")
    /\ ~soundboard_timed_out(timer)
    /\ "YELLOW" \in Reads(pins)
    /\ read' = "YELLOW"
    /\ sd' = play_asset("PRESS", sd)
    /\ blink' = 0
    /\ lamps' = set_all_lamps(LAMP_ON)
    /\ Goto("sb_blink_on")
    /\ heldOver' = TRUE
    /\ UNCHANGED <<excVars, ret, pins, timer, cacheVars, runVars,
                   idleVars, playVars, sawReleased, inputVars, unwound, gpio,
                   todo, press>>

SbBlinkOff ==
    /\ At("sb_blink_on")
    /\ lamps' = set_all_lamps(LAMP_OFF)
    /\ Goto("sb_blink_off")
    /\ UNCHANGED <<excVars, ret, pins, timer, sd, cacheVars, runVars, read,
                   idleVars, blink, playVars, sawReleased, fixedVars>>

\* the next blink, or return after the third
SbBlinkNext ==
    /\ At("sb_blink_off")
    /\ IF blink + 1 < 3
       THEN /\ blink' = blink + 1
            /\ lamps' = set_all_lamps(LAMP_ON)
            /\ Goto("sb_blink_on")
            /\ UNCHANGED <<timer, bank, read>>
       ELSE /\ blink' = 0
            /\ lamps' = lamps
            /\ pc' = Tail(pc)
            /\ timer' = 0
            /\ bank' = 0
            /\ read' = None
    /\ sd' = IF blink + 1 < 3 THEN sd ELSE Silent
    /\ UNCHANGED <<excVars, ret, pins, asset_samples, soundboard_samples, runVars,
                   idleVars, playVars, sawReleased, fixedVars>>

\* faulty variant of next_bank: the bank number wraps around
next_bank_wrapped(b, k) ==
    IF k = "RED" THEN (b + 1) % (MAX_BANK_NUMBER + 1)
    ELSE (b + MAX_BANK_NUMBER) % (MAX_BANK_NUMBER + 1)

\* faulty variant of next_bank: BLUE at bank 0 selects the last bank
next_bank_blue_wraps(b, k) ==
    IF k = "RED" THEN (IF b < MAX_BANK_NUMBER THEN b + 1 ELSE b)
    ELSE (IF b > 0 THEN b - 1 ELSE MAX_BANK_NUMBER)

\* the bank a RED or BLUE press selects; the same bank when out of range
next_bank(b, k) ==
    IF k = "RED" THEN (IF b < MAX_BANK_NUMBER THEN b + 1 ELSE b)
    ELSE (IF b > 0 THEN b - 1 ELSE b)

\* RED / BLUE: the next or previous bank is preloaded, or BANK_OUT_OF_RANGE
\* is played and waited for
SbSwitchBank ==
    /\ At("sb_loop")
    /\ ~soundboard_timed_out(timer)
    /\ \E k \in Reads(pins) \cap {"RED", "BLUE"} :
        /\ read' = k
        /\ bank' = next_bank(bank, k)
        /\ IF next_bank(bank, k) # bank
           THEN /\ sd' = play_asset("PRESS", sd)
                /\ Call("pre_on", "sb_rearm")
           ELSE /\ sd' = play_asset("BANK_OUT_OF_RANGE", play_asset("PRESS", sd))
                /\ IF "BANK_OUT_OF_RANGE" \in asset_samples
                   THEN Call("asset_wait", "sb_rearm")
                   ELSE Goto("sb_rearm")
    /\ UNCHANGED <<excVars, ret, lamps, pins, timer, asset_samples,
                   soundboard_samples, runVars, idleVars, blink, playVars,
                   sawReleased, fixedVars>>

\* faulty variant of SbRearm: the timeout is not set again
SbRearmKeepsTimeout ==
    /\ At("sb_rearm")
    /\ Call("deb_on", "sb_loop")
    /\ UNCHANGED <<excVars, ret, lamps, pins, timer, sd, cacheVars, runVars, read,
                   idleVars, blink, playVars, sawReleased, fixedVars>>

\* timeout = time.time() + SOUNDBOARD_TIMEOUT, then debounce_and_await_release()
SbRearm ==
    /\ At("sb_rearm")
    /\ timer' = 0
    /\ Call("deb_on", "sb_loop")
    /\ UNCHANGED <<excVars, ret, lamps, pins, sd, cacheVars, runVars, read,
                   idleVars, blink, playVars, sawReleased, fixedVars>>

\* faulty variant of SbSample: the loop goes on without the debounce
SbSampleNoDebounce ==
    /\ At("sb_loop")
    /\ ~soundboard_timed_out(timer)
    /\ \E k \in Reads(pins) \ {None, "YELLOW", "RED", "BLUE"} :
        /\ read' = k
        /\ sd' = play_sample(k, sd)
    /\ timer' = 0
    /\ Goto("sb_loop")
    /\ UNCHANGED <<excVars, ret, lamps, pins, cacheVars, runVars,
                   idleVars, blink, playVars, sawReleased, fixedVars>>

\* any other key: play_sample(key, wait=False), new timeout, debounce
SbSample ==
    /\ At("sb_loop")
    /\ ~soundboard_timed_out(timer)
    /\ \E k \in Reads(pins) \ {None, "YELLOW", "RED", "BLUE"} :
        /\ read' = k
        /\ sd' = play_sample(k, sd)
    /\ timer' = 0
    /\ Call("deb_on", "sb_loop")
    /\ UNCHANGED <<excVars, ret, lamps, pins, cacheVars, runVars,
                   idleVars, blink, playVars, sawReleased, fixedVars>>

---------------------------------------------------------------------------
(* The main script: the "run" command *)

\* faulty variant of MainStart: JUKEBOX_SONGS_PATH is not checked
MainStartUnchecked ==
    /\ pc = <<"main">>
    /\ pc' = <<"run_preload", "main_try">> /\ gpio' = "setup"
    /\ UNCHANGED <<excVars, ret, lamps, pins, timer, sd, cacheVars, runVars, read,
                   idleVars, blink, playVars, sawReleased, inputVars, unwound, todo,
                   press, heldOver>>

\* the checks of JUKEBOX_SONGS_PATH, init_gpios(), then run() inside try
MainStart ==
    /\ pc = <<"main">>
    /\ IF songs.status # "directory"
       THEN pc' = <<"exit_config">> /\ gpio' = gpio
       ELSE pc' = <<"run_preload", "main_try">> /\ gpio' = "setup"
    /\ UNCHANGED <<excVars, ret, lamps, pins, timer, sd, cacheVars, runVars, read,
                   idleVars, blink, playVars, sawReleased, inputVars, unwound, todo,
                   press, heldOver>>

\* SIGINT: KeyboardInterrupt is raised in the main thread wherever it is
Interrupt ==
    /\ Running
    /\ exc = "none"
    /\ pending = "none"
    /\ Raise("KeyboardInterrupt")

\* SIGTERM: the run command installs no handler for it, so the process ends
\* at once: no except or finally block runs, the threads and the locals are
\* gone, and the pins, the sound and the player stay as they are
Terminate ==
    /\ Running
    /\ exc = "none"
    /\ pending = "none"
    /\ pc' = <<"killed">>
    /\ lights' = IF lights.pc \in {"none", "done"} THEN lights
                 ELSE [NoLights EXCEPT !.pc = "done"]
    /\ ret' = <<>>
    /\ timer' = 0
    /\ key' = Dead /\ input' = <<Dead>> /\ boot' = FALSE
    /\ read' = None /\ skip' = FALSE /\ frame' = 0 /\ blink' = 0
    /\ number' = 0 /\ spath' = NoFile /\ bpm' = 0 /\ aborted' = FALSE
    /\ bank' = 0
    /\ UNCHANGED <<excVars, lamps, pins, sd, asset_samples, soundboard_samples, proc,
                   load_thread, stop_event, trace, sawReleased, fixedVars>>

\* except KeyboardInterrupt: pass; finally: set_all_lamps(LAMP_OFF);
\* GPIO.cleanup(); then the script ends, or the uncaught exception ends it
MainFinally ==
    /\ pc = <<"main_except">>
    /\ lamps' = set_all_lamps(LAMP_OFF)
    /\ pc' = <<IF exc = "KeyboardInterrupt" THEN "exit_0" ELSE "exit_traceback">>
    /\ gpio' = "cleanup"
    /\ UNCHANGED <<excVars, ret, pins, timer, sd, cacheVars, runVars, read,
                   idleVars, blink, playVars, sawReleased, inputVars, unwound, todo,
                   press, heldOver>>

---------------------------------------------------------------------------
(* The specification of the run loop *)

Init ==
    /\ pc = <<"main">>
    /\ exc = "none"
    /\ pending = "none"
    /\ ret = <<>>
    /\ lamps = set_all_lamps(LAMP_OFF)
    /\ pins = KEYPAD_RELEASED
    /\ timer = 0
    /\ sd = Silent
    /\ asset_samples = {}
    /\ soundboard_samples = <<>>
    /\ bank = 0
    /\ key = Dead
    /\ input = <<Dead>>
    /\ boot = TRUE
    /\ read = None
    /\ skip = FALSE
    /\ frame = 0
    /\ blink = 0
    /\ number = 0
    /\ spath = NoFile
    /\ bpm = 0
    /\ proc = "none"
    /\ aborted = FALSE
    /\ load_thread = "none"
    /\ lights = NoLights
    /\ stop_event = FALSE
    /\ trace = <<>>
    /\ sawReleased = FALSE
    /\ songs \in SongDirs
    /\ unwound = <<>>
    /\ samples = <<>>
    /\ decoded = None
    /\ assets \in AssetDirs
    /\ delay = NoDelay
    /\ gpio = "unset"
    /\ todo = ASSET_FILES
    /\ press = "none"
    /\ heldOver = FALSE

Next ==
    \/ Press \/ Release \/ PressWhileBlocked \/ ReleaseWhileBlocked \/ Tick
    \/ DebounceLampsOn \/ DebounceSleep \/ DebounceAwaitRelease \/ DebounceLampsOff
    \/ PromptStart \/ PromptTimeout \/ PromptRead \/ PromptSleep \/ PromptReturn
    \/ IdleStart \/ IdleTop \/ IdleKeyPressed \/ IdleFrameElapsed \/ IdleRetrigger
    \/ IdleReturn
    \/ ClearLampsOn \/ ClearLampsOff \/ ClearNext
    \/ RunPreload \/ RunAfterIdle \/ RunDigit \/ RunReset \/ RunConfirm
    \/ RunShuffle \/ RunShufflePlay \/ RunShuffleAfterPlay \/ RunSoundboard
    \/ RunTimeout \/ RunIgnore \/ RunNext \/ RunAfterPrompt \/ RunAfterPlay
    \/ RunBreak
    \/ PlayStart \/ PlayNotFound \/ AssetWaitDone \/ PlayNotFoundReturn
    \/ PlayLoadStart \/ LoadThreadPlay \/ LoadThreadDone \/ PlayBpm \/ PlayJoin
    \/ PlaySong \/ PlayLightsStart \/ PlayTry \/ PlayPoll \/ PlayRead \/ PlayerExit
    \/ PlayFinally \/ PlayFinallyJoin \/ PlayFinallySleep \/ PlayReturn
    \/ LightsWhile \/ LightsChoose \/ LightsFrame \/ LightsWrite
    \/ PreloadLampsOn \/ PreloadLoad
    \/ SbStart \/ SbArm \/ SbTimeout \/ SbNoKey \/ SbSleep \/ SbExit \/ SbBlinkOff
    \/ SbBlinkNext \/ SbSwitchBank \/ SbRearm \/ SbSample
    \/ MainStart \/ Interrupt \/ Terminate \/ MainFinally

Spec == Init /\ [][Next]_vars

\* the lamp-animation thread is scheduled: it is never held forever at a
\* step it can take (its sleeps end, the interpreter switches threads), and
\* lights_thread.join() returns once the thread has ended
LightsFairness ==
    /\ WF_vars(LightsWhile) /\ WF_vars(LightsChoose)
    /\ WF_vars(LightsFrame) /\ WF_vars(LightsWrite)
    /\ WF_vars(PlayFinallyJoin)

SpecLights == Init /\ [][Next]_vars /\ LightsFairness

\* the poll loop of soundboard() runs and its clock advances: time.sleep(0.1)
\* ends, read_keypad_input returns, and time.time() grows between two polls
SoundboardFairness ==
    /\ SF_vars(Tick)
    /\ WF_vars(SbNoKey) /\ WF_vars(SbSleep) /\ WF_vars(SbTimeout)

SpecSoundboard == Init /\ [][Next]_vars /\ SoundboardFairness

---------------------------------------------------------------------------
(* The specification of the keypad decoder: read_keypad_input on every    *)
(* list of KEYPAD_TAKE_SAMPLES samples that holds at most two pin states  *)

\* one call of read_keypad_input: the samples it takes and what it returns
ReadKeypad ==
    /\ samples = <<>>
    /\ \E g \in PinVectors, p \in PinVectors, k \in 0..KEYPAD_TAKE_SAMPLES :
        /\ samples' = Mix(g, k, p)
        /\ decoded' \in read_keypad_input(Mix(g, k, p))
    /\ UNCHANGED <<pc, excVars, ret, lamps, pins, timer, sd, cacheVars, runVars, read,
                   idleVars, blink, playVars, sawReleased, songs, unwound,
                   assets, delay, gpio, todo,
                   press, heldOver>>

\* the samples and the result are dropped when the caller is done with them
ForgetSamples ==
    /\ samples # <<>>
    /\ samples' = <<>>
    /\ decoded' = None
    /\ UNCHANGED <<pc, excVars, ret, lamps, pins, timer, sd, cacheVars, runVars, read,
                   idleVars, blink, playVars, sawReleased, songs, unwound,
                   assets, delay, gpio, todo,
                   press, heldOver>>

InitKeypad == Init /\ songs = SongsPath("unset", {}) /\ assets = AssetsAllValid

NextKeypad == ReadKeypad \/ ForgetSamples

SpecKeypad == InitKeypad /\ [][NextKeypad]_vars

---------------------------------------------------------------------------
(* The specification of preload_assets: its loop, one asset key per step   *)
(* and the keys in any order, on every assets directory                    *)

\* the files of the assets directory before the process starts
InstallAssets ==
    /\ pc = <<"main">>
    /\ todo = ASSET_FILES
    /\ assets \in AssetDirs
    /\ assets' \in AssetInstalls \ AssetDirs
    /\ UNCHANGED <<pc, excVars, ret, lamps, pins, timer, sd, cacheVars, runVars, read,
                   idleVars, blink, playVars, sawReleased, songs, samples, decoded,
                   delay, unwound, gpio, todo,
                   press, heldOver>>

\* faulty variant of PreloadAsset: a file that cannot be loaded ends the loop
PreloadAssetOrStop ==
    /\ pc = <<"main">>
    /\ \E k \in todo :
        /\ asset_samples' = preload_asset(assets, k, asset_samples)
        /\ todo' = IF k \in preload_asset(assets, k, asset_samples)
                   THEN todo \ {k} ELSE {}
    /\ UNCHANGED <<pc, excVars, ret, lamps, pins, timer, sd, soundboard_samples, bank,
                   runVars, read, idleVars, blink, playVars, sawReleased, inputVars,
                   unwound, gpio,
                   press, heldOver>>

\* for key, filename in ASSET_FILES.items(): one iteration
PreloadAsset ==
    /\ pc = <<"main">>
    /\ \E k \in todo :
        /\ asset_samples' = preload_asset(assets, k, asset_samples)
        /\ todo' = todo \ {k}
    /\ UNCHANGED <<pc, excVars, ret, lamps, pins, timer, sd, soundboard_samples, bank,
                   runVars, read, idleVars, blink, playVars, sawReleased, inputVars,
                   unwound, gpio,
                   press, heldOver>>

InitAssets == Init /\ songs = SongsPath("unset", {})

NextAssets == InstallAssets \/ PreloadAsset

SpecAssets == InitAssets /\ [][NextAssets]_vars

---------------------------------------------------------------------------
(* The specification of the frame delay of random_lights_thread, on every  *)
(* whole tempo up to MaxBpm                                                *)

\* random_lights_thread(bpm, stop_event) is started
LightsThreadStart ==
    /\ lights.pc = "none"
    /\ bpm' \in 1..MaxBpm
    /\ lights' = [NoLights EXCEPT !.pc = "while"]
    /\ UNCHANGED <<pc, excVars, ret, lamps, pins, timer, sd, cacheVars, runVars, read,
                   idleVars, blink, number, spath, proc, aborted, load_thread,
                   stop_event, trace, sawReleased, fixedVars>>

\* bpm_multiplier = random.choice([1, 2]) and the delay of its repetitions
LightsDelay ==
    /\ lights.pc = "while"
    /\ \E m \in {1, 2} :
        /\ lights' = [lights EXCEPT !.pc = "frame", !.pattern = 1, !.mult = m,
                                    !.rep = 1, !.frame = 1]
        /\ delay' = frame_delay(bpm, m)
    /\ UNCHANGED <<pc, excVars, ret, lamps, pins, timer, sd, cacheVars, runVars, read,
                   idleVars, blink, number, spath, bpm, proc, aborted, load_thread,
                   stop_event, trace, sawReleased, songs, assets, samples, decoded,
                   unwound, gpio, todo,
                   press, heldOver>>

\* the same thread run with a faster song and the same multiplier
LightsFaster ==
    /\ lights.pc = "frame"
    /\ \E b \in (bpm + 1)..MaxBpm :
        /\ bpm' = b
        /\ delay' = frame_delay(b, lights.mult)
    /\ UNCHANGED <<pc, excVars, ret, lamps, pins, timer, sd, cacheVars, runVars, read,
                   idleVars, blink, number, spath, proc, aborted, load_thread,
                   lights, stop_event, trace, sawReleased, songs, assets, samples,
                   decoded, unwound, gpio, todo,
                   press, heldOver>>

InitDelay == Init /\ songs = SongsPath("unset", {}) /\ assets = AssetsAllValid

NextDelay == LightsThreadStart \/ LightsDelay \/ LightsFaster

SpecDelay == InitDelay /\ [][NextDelay]_vars

---------------------------------------------------------------------------
(* The specification of song_path: one call after the other, for the      *)
(* numbers of up to MaxDigits digits, on the directory of the run         *)

\* spath = song_path(number)
SongPathCall ==
    /\ \E b \in UNION {[1..k -> Digits] : k \in 1..MaxDigits} :
        /\ number' = int(b)
        /\ spath' \in song_path(songs.files, int(b))
    /\ UNCHANGED <<pc, excVars, ret, lamps, pins, timer, sd, cacheVars, runVars, read,
                   idleVars, blink, bpm, proc, aborted, load_thread, lights,
                   stop_event, trace, sawReleased, songs, assets, samples, decoded,
                   delay, unwound, gpio, todo, press, heldOver>>

SpecSongPath == Init /\ [][SongPathCall]_vars

---------------------------------------------------------------------------
(* Properties *)

LampsOff == lamps = <<LAMP_OFF, LAMP_OFF, LAMP_OFF>>
LampsLit == lamps = <<LAMP_ON, LAMP_ON, LAMP_ON>>

\* f has returned v and the caller has not taken the value yet
Returned(f, v) == ret = <<f, v>>

\* e is one of the events of the current play() call
Logged(e) == \E i \in DOMAIN trace : trace[i] = e

\* the current label is l, inside a function called from label back
AtIn(l, back) == At(l) /\ Len(pc) > 1 /\ pc[2] = back

\* no file <number>_*.mp3 is in the songs directory
NoMatchingFile == \A f \in songs.files : ~(f.prefix = str(number) /\ f.ext = "mp3")

\* play() has started none of its helpers
NothingLaunched ==
    /\ proc = "none"
    /\ load_thread = "none"
    /\ lights = NoLights
    /\ bpm = 0

\* C1: for a track number without a matching file, play lights the lamps,
\* calls play_asset("TRACK_NOT_FOUND") exactly once while all lamps are lit
\* (the sound device renders the asset when it was preloaded), starts neither
\* the LOAD thread, the BPM tool, the player nor the lamp thread, and returns
\* TRACK_NOT_FOUND with all lamps off; it returns TRACK_NOT_FOUND for no
\* number that has a matching file.
C1_TrackNotFound ==
    /\ At("play_nf") => NoMatchingFile /\ LampsLit /\ NothingLaunched /\ trace = <<>>
    /\ (AtIn("asset_wait", "play_nf_off") \/ At("play_nf_off")) =>
           /\ NoMatchingFile /\ LampsLit /\ NothingLaunched
           /\ trace = <<"play_asset TRACK_NOT_FOUND">>
    /\ AtIn("asset_wait", "play_nf_off") => sd = Sound("asset", "TRACK_NOT_FOUND", 0)
    /\ Returned("play", "TRACK_NOT_FOUND") =>
           /\ NoMatchingFile /\ LampsOff /\ NothingLaunched
           /\ trace = <<"play_asset TRACK_NOT_FOUND">>
    /\ (Returned("play", "FINISHED") \/ Returned("play", "ABORTED")) => ~NoMatchingFile

\* play(0) has returned TRACK_NOT_FOUND after the asset was rendered: the
\* directory holds 0_Wave.wav, but no 0_*.mp3
C1_Witness ==
    /\ Returned("play", "TRACK_NOT_FOUND")
    /\ number = 0
    /\ songs.files # {}
    /\ "TRACK_NOT_FOUND" \in asset_samples
    /\ LampsOff

\* C2: when play returns for a track that resolved to a file, the result is
\* FINISHED exactly when RED was not read in the polling loop, and then the
\* player has exited by itself and terminate was never sent; it is ABORTED
\* exactly when RED was read after a poll that saw the player alive, and then
\* terminate was sent and the player no longer runs.
C2_FinishedOrAborted ==
    /\ At("play_read") => proc \in {"running", "exited"} /\ ~aborted
    /\ Returned("play", "FINISHED") =>
           /\ ~aborted
           /\ proc = "exited"
           /\ ~Logged("proc.terminate")
    /\ Returned("play", "ABORTED") =>
           /\ aborted
           /\ proc \in {"terminated", "exited"}
           /\ Logged("proc.terminate")
    /\ (At("play_fin_end") /\ pending = "none") =>
           /\ aborted <=> Logged("proc.terminate")
           /\ proc # "running"

\* RED was read while the player was running, and play has returned ABORTED
C2_Witness ==
    /\ Returned("play", "ABORTED")
    /\ proc = "terminated"
    /\ Logged("Popen ffplay")

\* C3: when Popen of the player fails, play raises nothing: from then on the
\* only exception the main thread can see is the user's interrupt.
C3_MissingPlayerIsNoOp ==
    Logged("Popen failed") =>
        /\ exc \in {"none", "KeyboardInterrupt"}
        /\ pending \in {"none", "KeyboardInterrupt"}

\* Popen of the player has failed, the AttributeError of proc.poll() went
\* through the finally block of play and through run(), and the script has
\* ended with a traceback
C3_Witness ==
    /\ pc = <<"exit_traceback">>
    /\ exc = "AttributeError"
    /\ Logged("Popen failed")
    /\ unwound # <<>> /\ Head(unwound) = "play_fin_end"

\* C4: no outcome of running the BPM tool ends play: the bpm_tag call is
\* left by an exception only when the user interrupts it.
C4_BpmFailureNotFatal ==
    (unwound # <<>> /\ Head(unwound) = "play_bpm") => exc = "KeyboardInterrupt"

\* bpm-tag is not installed: the script has ended with the FileNotFoundError
\* of subprocess.run, and the player was never launched
C4_Witness ==
    /\ pc = <<"exit_traceback">>
    /\ exc = "FileNotFoundError"
    /\ unwound # <<>> /\ Head(unwound) = "play_bpm"
    /\ proc = "none"

\* the labels at which play, debounce_and_await_release,
\* preload_soundboard_samples, clear_animation and the exit blink of
\* soundboard have lit the lamps
LitLabels ==
    {"play_nf", "asset_wait", "play_nf_off", "play_load", "play_bpm", "play_join",
     "play_song", "play_lights", "play_try", "play_poll", "play_read", "play_fin",
     "play_fin_join", "play_fin_sleep", "play_fin_end",
     "deb_sleep1", "deb_wait", "deb_sleep2", "pre_load", "clr_on", "sb_blink_on"}

\* C5: when an error takes the main thread out of one of the operations
\* that light the lamps, all three lamps are off once the operation is left
\* (stated for the errors of the program itself, the user's interrupt aside).
C5_LampsOffOnEveryExit ==
    (/\ pc = <<"main_except">>
     /\ exc # "KeyboardInterrupt"
     /\ unwound # <<>>
     /\ Head(unwound) \in LitLabels)
        => LampsOff

\* play has been left by the FileNotFoundError of bpm_tag with all lamps lit
C5_Witness ==
    /\ pc = <<"main_except">>
    /\ exc = "FileNotFoundError"
    /\ unwound # <<>> /\ Head(unwound) = "play_bpm"
    /\ LampsLit

\* C6: the player is launched only when the LOAD thread has ended: whenever
\* Popen has been called, the events of the play() call begin with the start
\* of the LOAD thread, the return of bpm_tag and the join of the LOAD thread,
\* in this order, and the LOAD thread is over; while the LOAD chirp sounds
\* the player has not been started.
C6_PlayerAfterLoad ==
    /\ proc # "none" =>
           /\ load_thread = "done"
           /\ Len(trace) >= 4
           /\ SubSeq(trace, 1, 3) =
                  <<"load_sample_thread.start", "bpm_tag", "load_sample_thread.join">>
           /\ trace[4] \in {"Popen ffplay", "Popen failed"}
    /\ load_thread \in {"started", "playing"} => proc = "none"
    /\ load_thread = "playing" => sd = Sound("asset", "LOAD", 0)
    /\ (At("play_bpm") \/ At("play_join")) => load_thread # "none"

\* the player runs, the LOAD chirp was rendered and is over
C6_Witness ==
    /\ proc = "running"
    /\ "LOAD" \in asset_samples
    /\ load_thread = "done"
    /\ Logged("Popen ffplay")

\* C7: prompt_keypad_input returns None only when the timeout has elapsed and
\* no key was read; when it returns a key, the key is a symbol of the lookup
\* table that one read of the pins gives, the raw pins have been read
\* released since, and all lamps are off; the loop goes on only while
\* nothing was read.
C7_PromptResult ==
    /\ Returned("prompt_keypad_input", None) =>
           timer > KEYPAD_TIMEOUT /\ read = None
    /\ (Len(ret) = 2 /\ ret[1] = "prompt_keypad_input" /\ ret[2] # None) =>
           /\ \E v \in DOMAIN KEYPAD_LOOKUP : KEYPAD_LOOKUP[v] = ret[2]
           /\ sawReleased
           /\ LampsOff
    /\ At("prompt_sleep") => read = None
    /\ At("prompt_deb") => read # None /\ sawReleased /\ LampsOff

\* the key 7 was read, released, and is returned with the lamps off
C7_Witness ==
    /\ Returned("prompt_keypad_input", "7")
    /\ sawReleased
    /\ LampsOff

\* C8: when all KEYPAD_TAKE_SAMPLES samples are the same vector of the lookup
\* table, read_keypad_input returns the symbol the table gives for it.
C8_IdenticalSamples ==
    \A v \in DOMAIN KEYPAD_LOOKUP :
        samples = [i \in 1..KEYPAD_TAKE_SAMPLES |-> v] => decoded = KEYPAD_LOOKUP[v]

\* ten samples of the RED vector were decoded as RED
C8_Witness ==
    /\ samples = [i \in 1..KEYPAD_TAKE_SAMPLES |-> <<1, 1, 0, 0>>]
    /\ decoded = "RED"

\* C9: when more than half of the samples are one vector that is not in the
\* lookup table (0000 is the only one), read_keypad_input returns None; and
\* whatever the samples are, a symbol it returns is the table's symbol for
\* one of the sampled vectors.
C9_UnknownVectorIsNone ==
    samples # <<>> =>
        /\ \A v \in PinVectors \ DOMAIN KEYPAD_LOOKUP :
               2 * Cardinality({i \in DOMAIN samples : samples[i] = v}) > Len(samples)
                   => decoded = None
        /\ decoded # None =>
               \E i \in DOMAIN samples :
                   /\ samples[i] \in DOMAIN KEYPAD_LOOKUP
                   /\ KEYPAD_LOOKUP[samples[i]] = decoded

\* eight samples of the released pins and two of the RED vector gave None
C9_Witness ==
    /\ samples = Mix(<<1, 1, 0, 0>>, 2, KEYPAD_RELEASED)
    /\ decoded = None

\* the value of the decimal numeral s, digit by digit from the right
RECURSIVE Pow10(_)
Pow10(k) == IF k = 0 THEN 1 ELSE 10 * Pow10(k - 1)

RECURSIVE Weighted(_, _)
Weighted(s, i) ==
    IF i > Len(s) THEN 0
    ELSE DigitValue[s[i]] * Pow10(Len(s) - i) + Weighted(s, i + 1)

\* the process goes on: no signal ends it in this step
Alive == pc' # <<"killed">>

\* the main thread takes a step of run() and no exception is raised
RunStep == pc' # pc /\ exc' = "none" /\ Alive

\* C10: in Entry mode the buffer is empty after idle returned, every digit
\* key is appended to it, and CONFIRM on a non-empty buffer calls play once
\* with the decimal value of the buffer; when that call has returned, with
\* whatever result, run() breaks to idle, and the next Entry starts with an
\* empty buffer.
C10_ConfirmPlaysNumber ==
    [][/\ (At("run_idle") /\ RunStep) =>
              input' = <<>> /\ key' = ret[2] /\ Head(pc') = "run_eval"
       /\ (At("run_eval") /\ key \in Digits /\ RunStep) =>
              input' = Append(input, key)
       /\ (At("run_eval") /\ key = "G" /\ input # <<>> /\ RunStep) =>
              /\ pc' = <<"play_start", "run_play">> \o Tail(pc)
              /\ number' = Weighted(input, 1)
              /\ trace' = <<>>
       /\ (At("run_play") /\ RunStep) =>
              /\ Len(ret) = 2 /\ ret[1] = "play"
              /\ Head(pc') = "run_break"
       /\ (At("run_break") /\ RunStep) =>
              pc' = <<"idle_start", "run_idle">> \o Tail(pc)
      ]_vars

\* play(70) was called from CONFIRM after the digits 7 and 0, and has returned
C10_Witness ==
    /\ At("run_play")
    /\ number = 70
    /\ Len(ret) = 2 /\ ret[1] = "play"

\* the steps of clear_animation() called from label back: three times the
\* lamps all on, then all off, and then the return to back
ClearAnimationSteps(back) ==
    /\ (AtIn("clr_loop", back) /\ RunStep) =>
           LampsLit' /\ pc' = <<"clr_on">> \o Tail(pc) /\ blink' = blink
    /\ (AtIn("clr_on", back) /\ RunStep) =>
           LampsOff' /\ pc' = <<"clr_off">> \o Tail(pc) /\ blink' = blink
    /\ (AtIn("clr_off", back) /\ RunStep) =>
           IF blink < 2
           THEN blink' = blink + 1 /\ pc' = <<"clr_loop">> \o Tail(pc)
           ELSE pc' = Tail(pc) /\ LampsOff'

\* C11: RESET on a non-empty buffer empties the buffer and plays the three
\* blinks, after which the next key is prompted for (Entry goes on); CONFIRM
\* on an empty buffer calls no play and the next key is prompted for.
C11_ResetThenConfirm ==
    [][/\ (At("run_eval") /\ key = "R" /\ input # <<>> /\ RunStep) =>
              /\ input' = <<>>
              /\ blink' = 0
              /\ pc' = <<"clr_loop", "run_next">> \o Tail(pc)
              /\ UNCHANGED playVars
       /\ ClearAnimationSteps("run_next")
       /\ (AtIn("clr_loop", "run_next") \/ AtIn("clr_on", "run_next")
              \/ AtIn("clr_off", "run_next")) =>
              input' = input \/ exc' # "none" \/ ~Alive
       /\ (At("run_next") /\ RunStep) =>
              /\ pc' = <<"prompt_start", "run_prompt">> \o Tail(pc)
              /\ input' = input
              /\ UNCHANGED playVars
       /\ (At("run_eval") /\ key = "G" /\ input = <<>> /\ RunStep) =>
              /\ pc' = <<"run_next">> \o Tail(pc)
              /\ input' = <<>>
              /\ UNCHANGED playVars
      ]_vars

\* the third blink of the animation that follows RESET, the buffer emptied
C11_Witness ==
    /\ AtIn("clr_off", "run_next")
    /\ blink = 2
    /\ key = "R"
    /\ input = <<>>
    /\ LampsOff

\* C12: when the prompt times out in Entry, no play is called; the three
\* blinks are played exactly when the buffer is not empty; then run() breaks
\* to idle, and the Entry that follows starts with an empty buffer.
C12_EntryTimeout ==
    [][/\ (At("run_eval") /\ key = None /\ RunStep) =>
              /\ UNCHANGED playVars
              /\ IF input # <<>>
                 THEN pc' = <<"clr_loop", "run_break">> \o Tail(pc) /\ blink' = 0
                 ELSE pc' = <<"run_break">> \o Tail(pc) /\ UNCHANGED <<lamps, blink>>
       /\ ClearAnimationSteps("run_break")
       /\ (AtIn("clr_loop", "run_break") \/ AtIn("clr_on", "run_break")
              \/ AtIn("clr_off", "run_break")) => UNCHANGED playVars
       /\ (At("run_break") /\ RunStep) =>
              /\ pc' = <<"idle_start", "run_idle">> \o Tail(pc)
              /\ proc' = "none" /\ trace' = <<>>
       /\ (At("run_idle") /\ RunStep) => input' = <<>>
      ]_vars

\* the third blink of the animation that follows a timeout
C12_Witness ==
    /\ AtIn("clr_off", "run_break")
    /\ blink = 2
    /\ LampsOff

\* C13: after BLUE, play is called with the number of one of the mp3 files
\* of the songs directory; when it returns FINISHED a number is drawn and
\* play is called again, and when it returns ABORTED or TRACK_NOT_FOUND
\* run() breaks to idle.
C13_ShuffleLoop ==
    [][/\ (At("run_eval") /\ key = "BLUE" /\ RunStep) =>
              pc' = <<"run_shuffle">> \o Tail(pc) /\ UNCHANGED playVars
       /\ (At("run_shuffle") /\ RunStep) =>
              /\ pc' = <<"play_start", "run_shuffle_ret">> \o Tail(pc)
              /\ \E f \in songs.files :
                     f.ext = "mp3" /\ number' = Weighted(f.prefix, 1)
              /\ trace' = <<>> /\ proc' = "none"
       /\ (At("run_shuffle_ret") /\ RunStep) =>
              /\ Len(ret) = 2 /\ ret[1] = "play"
              /\ ret[2] \in {"FINISHED", "ABORTED", "TRACK_NOT_FOUND"}
              /\ IF ret[2] = "FINISHED"
                 THEN pc' = <<"run_shuffle">> \o Tail(pc)
                 ELSE pc' = <<"run_break">> \o Tail(pc)
      ]_vars

\* the shuffle drew 0 from 00_Padded.mp3, and play(0) found no 0_*.mp3
C13_Witness ==
    /\ At("run_shuffle_ret")
    /\ Returned("play", "TRACK_NOT_FOUND")
    /\ number = 0

C15_LoadReplacesCache ==
    [][(At("pre_load") /\ BankDirs[bank] # NoBank /\ RunStep) =>
           /\ \A k \in DOMAIN soundboard_samples' :
                  /\ soundboard_samples'[k] = bank
                  /\ \E f \in BankDirs[bank] : upper(f.prefix) = k
           /\ asset_samples' = asset_samples
      ]_vars

\* bank 2 was loaded over the samples of bank 0 (bank 1 has no directory):
\* only the sample of bank 2 is cached
C15_Witness ==
    /\ At("sb_rearm")
    /\ bank = 2
    /\ read = "RED"
    /\ DOMAIN soundboard_samples = {"G"}
    /\ soundboard_samples["G"] = 2
    /\ asset_samples # {}

\* the keys of the samples that the directory of bank b provides
BankKeys(b) ==
    {upper(f.prefix) : f \in {g \in BankDirs[b] : /\ supported_key(upper(g.prefix))
                                                  /\ g.framerate \in {44100, 48000}
                                                  /\ g.decodes}}

\* C16: after a bank switch has completed, the cached samples are exactly
\* those of the current bank.
C16_OneBankResident ==
    At("sb_rearm") =>
        /\ DOMAIN soundboard_samples = BankKeys(bank)
        /\ \A k \in DOMAIN soundboard_samples : soundboard_samples[k] = bank

\* bank 1, which has no directory, is current and the samples of bank 0 are
\* still cached
C16_Witness ==
    /\ At("sb_rearm")
    /\ bank = 1
    /\ read = "RED"
    /\ "0" \in DOMAIN soundboard_samples
    /\ soundboard_samples["0"] = 0

\* C17: play_sample renders the cached sample of the key; without one it
\* renders the MISSING asset; without that asset it renders nothing and
\* returns. play_asset of a key that is not loaded renders nothing and
\* returns; the only exception these steps can see is the arrival of Ctrl-C
\* (and a signal that ends the process ends these steps too).
C17_SampleFallback ==
    [][/\ (At("sb_loop") /\ RunStep /\ Head(pc') = "deb_on") =>
              /\ read' \notin {None, "YELLOW", "RED", "BLUE"}
              /\ sd' = IF read' \in DOMAIN soundboard_samples
                       THEN <<"sample", read', soundboard_samples[read']>>
                       ELSE IF "MISSING" \in asset_samples
                            THEN <<"asset", "MISSING", 0>>
                            ELSE sd
       /\ (At("sb_loop") /\ pc' # pc /\ Alive /\ exc' # "KeyboardInterrupt") =>
              exc' = "none"
       /\ (At("play_nf") /\ pc' # pc /\ Alive /\ exc' # "KeyboardInterrupt"
              /\ "TRACK_NOT_FOUND" \notin asset_samples) =>
              /\ exc' = "none"
              /\ sd' = sd
              /\ pc' = <<"play_nf_off">> \o Tail(pc)
      ]_vars

\* key 7 in bank 0, whose 7.wav has an unsupported rate: MISSING is rendered
C17_Witness ==
    /\ AtIn("deb_on", "sb_loop")
    /\ bank = 0
    /\ read = "7"
    /\ "7" \notin DOMAIN soundboard_samples
    /\ sd = Sound("asset", "MISSING", 0)

\* the file of asset key k cannot be loaded: it is missing, or its sample
\* rate is neither 44100 nor 48000, or it does not decode
AssetUnusable(k) ==
    \/ ~assets[k].exists
    \/ assets[k].framerate # 44100 /\ assets[k].framerate # 48000
    \/ ~assets[k].decodes

\* C18: at every point of the loop of preload_assets, in whatever order it
\* takes the keys, a key is set exactly when the loop has handled it and its
\* file is usable: unusable files are left unset and stop no other key.
C18_AssetKeysIndependent ==
    /\ todo \subseteq ASSET_FILES
    /\ \A k \in ASSET_FILES :
           k \in asset_samples <=> (k \notin todo /\ ~AssetUnusable(k))
    /\ todo = {} => asset_samples = preload_assets(assets)

\* the loop is over: one key was missing, one had a bad rate, one did not
\* decode, and the two usable ones are loaded
C18_Witness ==
    /\ todo = {}
    /\ ~assets["PRESS"].exists
    /\ assets["LOAD"].exists /\ assets["LOAD"].framerate = 22050
    /\ assets["MISSING"].exists /\ ~assets["MISSING"].decodes
       /\ assets["MISSING"].framerate = 44100
    /\ asset_samples = {"TRACK_NOT_FOUND", "BANK_OUT_OF_RANGE"}

C20_NoRunWithoutSongs ==
    songs.status # "directory" =>
        /\ pc \in {<<"main">>, <<"exit_config">>}
        /\ gpio = "unset"
        /\ asset_samples = {} /\ todo = ASSET_FILES
        /\ exc = "none"
        /\ LampsOff

\* exit(1) for a path that is not a directory
C20_Witness ==
    /\ pc = <<"exit_config">>
    /\ songs.status = "not_a_directory"
    /\ gpio = "unset"

\* C21: once the process has ended after an interrupt or a terminate signal
\* that arrived in the run loop, all lamps are off and the GPIO library has
\* been cleaned up.
C21_SignalsCleanUp ==
    (\/ pc = <<"killed">>
     \/ pc = <<"exit_0">> /\ exc = "KeyboardInterrupt")
        => LampsOff /\ gpio = "cleanup"

\* SIGTERM has ended the process while a track was playing: the lamps are
\* lit, the pins are still set up and the player goes on
C21_Witness ==
    /\ pc = <<"killed">>
    /\ LampsLit
    /\ gpio = "setup"
    /\ proc = "running"

\* the lamp-animation thread has been started and has not ended
LightsAlive == lights.pc \notin {"none", "done"}

\* the labels of play() from lights_thread.start() to lights_thread.join()
LightsLabels == {"play_try", "play_poll", "play_read", "play_fin", "play_fin_join"}

\* C22: a lamp-animation thread is started only by a play() that has found
\* its track and only when no such thread is alive; while the run loop goes
\* on, the thread is alive only between its start and its join in play(),
\* and it has ended whenever play() returns a value.
C22_OneLightsThread ==
    /\ []((LightsAlive /\ Running) => Head(pc) \in LightsLabels)
    /\ []((Len(ret) = 2 /\ ret[1] = "play") => ~LightsAlive)
    /\ [][(~LightsAlive /\ LightsAlive') =>
              /\ At("play_lights")
              /\ ~NoMatchingFile
              /\ Head(pc') = "play_try"]_vars

\* a play() of the shuffle loop has returned FINISHED and its thread has
\* ended, before the loop calls the next play()
C22_Witness ==
    /\ At("run_shuffle_ret")
    /\ Returned("play", "FINISHED")
    /\ lights.pc = "done"
    /\ stop_event

\* C23: a step of the main thread inside the run loop changes no lamp while
\* the lamp-animation thread is alive; the all-off write of play() is made
\* with the thread ended, and from there to the return of play() the thread
\* stays ended, so no frame is written after it.
C23_NoConcurrentLampWrite ==
    /\ [][(Running /\ LightsAlive /\ RunStep) => lamps' = lamps]_vars
    /\ [][(At("play_fin_join") /\ RunStep) =>
              ~LightsAlive /\ ~LightsAlive' /\ LampsOff']_vars
    /\ []((Running /\ InFunction({"play_fin_sleep", "play_fin_end"})) =>
              ~LightsAlive)

\* the player is running and the thread, between two frames, has put the
\* lamps off while the main thread polls the keypad
C23_Witness ==
    /\ At("play_read")
    /\ lights.pc = "frame"
    /\ lights.frame = 3
    /\ LampsOff
    /\ proc = "running"

\* C24 (as amended): with the stop flag set, the thread writes a frame only
\* if it had passed the flag check of that frame before; after that write,
\* and from every other position, it reaches no further write, so it renders
\* nothing of a pattern it may still draw, and it ends, so that the join of
\* play() completes.
C24_StopWithinOneFrame ==
    /\ [][(stop_event /\ lights.pc # "write") => lights'.pc # "write"]_vars
    /\ [][(lights.pc = "write" /\ lights' # lights) => lights'.pc # "write"]_vars
    /\ [][(LightsAlive /\ lamps' # lamps /\ pc' = pc) => lights.pc = "write"]_vars
    /\ (stop_event /\ LightsAlive) ~> ~LightsAlive
    /\ (At("play_fin_join") /\ exc = "none") ~> ~At("play_fin_join")

\* C24 (as stated): once the stop flag is set the thread selects no pattern.
C24_NoSelectionAfterStop ==
    [][(stop_event /\ LightsAlive) => lights'.pattern \in {lights.pattern, 0}]_vars

\* the flag was set after the check of frame 2 had passed: that frame is
\* still to be written while play() waits in join
C24_Witness ==
    /\ At("play_fin_join")
    /\ stop_event
    /\ lights.pc = "write"
    /\ lights.frame = 2

\* the pins while RED is held
RedPins == <<1, 1, 0, 0>>

\* C25: after an abort, play() goes from the lamps-off write to
\* debounce_and_await_release when RED is read, and to the fixed sleep when
\* it is not; the debounce returns only after the raw pins were read all
\* released; so RED is not held when play() returns ABORTED, nor on the way
\* from there to the first keypad read of idle().
C25_AbortSettles ==
    /\ [][(At("play_fin_join") /\ RunStep) =>
              /\ LampsOff'
              /\ IF ~aborted THEN pc' = <<"play_fin_end">> \o Tail(pc)
                 ELSE IF Lookup(pins) = "RED"
                      THEN pc' = <<"deb_on", "play_fin_end">> \o Tail(pc)
                      ELSE pc' = <<"play_fin_sleep">> \o Tail(pc)]_vars
    /\ [][(At("play_fin_sleep") /\ RunStep) =>
              pc' = <<"play_fin_end">> \o Tail(pc)]_vars
    /\ [][(AtIn("deb_wait", "play_fin_end") /\ RunStep) =>
              pins = KEYPAD_RELEASED /\ pc' = <<"deb_sleep2">> \o Tail(pc)]_vars
    /\ [][(AtIn("deb_sleep2", "play_fin_end") /\ RunStep) =>
              sawReleased /\ pc' = Tail(pc)]_vars
    /\ [][(Len(ret') = 2 /\ ret' # ret /\ ret'[2] = "ABORTED") =>
              At("play_fin_end") /\ aborted]_vars
    /\ []((Returned("play", "ABORTED")
              \/ (aborted /\ InFunction({"play_fin_sleep", "play_fin_end"})
                    /\ ~InFunction({"deb_on", "deb_sleep1", "deb_wait"})))
            => pins # RedPins)
    /\ [][(Returned("play", "ABORTED") /\ RunStep) =>
              Head(pc') = "run_break" /\ pins' = pins]_vars

\* RED was still held after the lamps were turned off: the release has been
\* read and the second debounce delay is running
C25_Witness ==
    /\ AtIn("deb_sleep2", "play_fin_end")
    /\ aborted
    /\ sawReleased
    /\ pins = KEYPAD_RELEASED
    /\ LampsLit

\* C26: no key pressed while play() plays the LOAD chirp and analyses the
\* tempo is released without the controller having read the keypad while it
\* was held.
C26_PressObserved == press # "missed"

\* a key was pressed and released while play() was in bpm_tag, the LOAD chirp
\* sounding: the main thread read nothing
C26_Witness ==
    /\ At("play_bpm")
    /\ press = "missed"
    /\ pins = KEYPAD_RELEASED
    /\ load_thread = "playing"

\* the step of a RED or BLUE press that has no bank to go to: bank and
\* samples as they were, BANK_OUT_OF_RANGE played after the press chirp
BankOutOfRange ==
    /\ bank' = bank
    /\ soundboard_samples' = soundboard_samples
    /\ sd' = play_asset("BANK_OUT_OF_RANGE", play_asset("PRESS", sd))
    /\ Head(pc') \in {"asset_wait", "sb_rearm"}

InSoundboard ==
    InFunction({"sb_start", "sb_arm", "sb_loop", "sb_sleep", "sb_rearm",
                "sb_blink_on", "sb_blink_off"})

\* soundboard() is polling and no key is held
SoundboardPolling ==
    /\ exc = "none"
    /\ Running
    /\ Head(pc) \in {"sb_loop", "sb_sleep"}
    /\ pins = KEYPAD_RELEASED

\* C28: soundboard() returns from the top of its loop exactly when more than
\* SOUNDBOARD_TIMEOUT seconds have passed on its timer; the timer starts at 0
\* when the mode is entered and again with every sample key, RED or BLUE,
\* and otherwise only advances; and as long as no key is pressed the mode
\* does not keep polling forever.
C28_RollingTimeout ==
    /\ [][/\ (At("sb_loop") /\ RunStep) =>
                 (pc' = Tail(pc) <=> timer > SOUNDBOARD_TIMEOUT)
          /\ (At("sb_arm") /\ RunStep) => timer' = 0
          /\ (At("sb_loop") /\ RunStep /\ read' \notin {None, "YELLOW"}) =>
                 \/ timer' = 0
                 \/ /\ read' \in {"RED", "BLUE"}
                    /\ pc'[IF Head(pc') = "sb_rearm" THEN 1 ELSE 2] = "sb_rearm"
          /\ (At("sb_rearm") /\ RunStep) => timer' = 0
          /\ (InSoundboard /\ InSoundboard' /\ exc' = "none" /\ Alive
                /\ timer' # timer) =>
                 IF pc' = pc THEN timer' = timer + TickSeconds
                 ELSE /\ timer' = 0
                      /\ \/ At("sb_arm")
                         \/ At("sb_rearm")
                         \/ At("sb_loop") /\ read' \notin {None, "YELLOW"}
         ]_vars
    /\ SoundboardPolling ~> ~SoundboardPolling

\* the timeout has expired at the top of the loop, counted from the RED press
\* that selected bank 1
C28_Witness ==
    /\ At("sb_loop")
    /\ soundboard_timed_out(timer)
    /\ bank = 1
    /\ pins = KEYPAD_RELEASED

\* debounce_and_await_release() is running for soundboard()
SoundboardDebounce(l) == AtIn(l, "sb_loop")

\* a step of the main thread from the top of the loop of soundboard()
SoundboardPoll == At("sb_loop") /\ pins' = pins /\ exc' = "none" /\ Alive

\* C29: in soundboard() a sample key goes straight to
\* debounce_and_await_release(), RED and BLUE go to it through the new
\* timeout, and that call lights the lamps, sleeps, leaves its loop only on a
\* raw read of KEYPAD_RELEASED, sleeps and puts the lamps out before it
\* returns to the poll; the lamps are off at every poll, and the first poll
\* after a handled key finds the keypad as the release left it.
C29_FeedbackBeforeNextPoll ==
    /\ [](At("sb_loop") => LampsOff)
    /\ []((SoundboardDebounce("deb_sleep1") \/ SoundboardDebounce("deb_wait"))
             => LampsLit)
    /\ [](SoundboardDebounce("deb_sleep2")
             => LampsLit /\ sawReleased /\ pins = KEYPAD_RELEASED)
    /\ [][/\ (SoundboardPoll /\ read' \notin {None, "YELLOW", "RED", "BLUE"})
                 => pc' = <<"deb_on", "sb_loop">> \o Tail(pc)
          /\ (SoundboardPoll /\ read' \in {"RED", "BLUE"})
                 => pc'[IF Head(pc') = "sb_rearm" THEN 1 ELSE 2] = "sb_rearm"
          /\ (At("sb_rearm") /\ RunStep)
                 => pc' = <<"deb_on", "sb_loop">> \o Tail(pc)
          /\ (SoundboardDebounce("deb_on") /\ RunStep)
                 => LampsLit' /\ pc' = <<"deb_sleep1">> \o Tail(pc)
          /\ (SoundboardDebounce("deb_sleep1") /\ RunStep)
                 => pc' = <<"deb_wait">> \o Tail(pc)
          /\ (SoundboardDebounce("deb_wait") /\ RunStep)
                 => pins = KEYPAD_RELEASED /\ pc' = <<"deb_sleep2">> \o Tail(pc)
          /\ (SoundboardDebounce("deb_sleep2") /\ RunStep)
                 => LampsOff' /\ pins' = KEYPAD_RELEASED /\ pc' = Tail(pc)
         ]_vars

\* the second sleep of the debounce after the sample key "7" in
\* soundboard(): the key was seen released and the lamps are still lit
C29_Witness ==
    /\ SoundboardDebounce("deb_sleep2")
    /\ read = "7"
    /\ sawReleased
    /\ pins = KEYPAD_RELEASED
    /\ LampsLit

\* C30: idle() returns the key it read only after
\* debounce_and_await_release() has seen the keypad released and put the
\* lamps out; run() evaluates that key next, with an empty buffer and
\* without calling prompt_keypad_input() first: a digit becomes the buffer,
\* BLUE goes to the shuffle loop, YELLOW calls soundboard(); and every later
\* evaluation is of a key prompt_keypad_input() returned.
C30_IdleKeyCarriedForward ==
    /\ [](At("idle_deb") => read # None /\ sawReleased /\ LampsOff)
    /\ [](At("run_idle") => ret = <<"idle", ret[2]>> /\ ret[2] # None
                               /\ sawReleased /\ LampsOff)
    /\ [][/\ (At("idle_deb") /\ RunStep) =>
                 ret' = <<"idle", read>> /\ pc' = Tail(pc) /\ Head(pc') = "run_idle"
          /\ (At("run_idle") /\ RunStep) =>
                 /\ key' = ret[2]
                 /\ input' = <<>>
                 /\ pc' = <<"run_eval">> \o Tail(pc)
          /\ (At("run_eval") /\ input = <<>> /\ RunStep) =>
                 /\ key \in Digits =>
                        /\ input' = <<key>>
                        /\ pc' = <<"prompt_start", "run_prompt">> \o Tail(pc)
                 /\ key = "BLUE" => pc' = <<"run_shuffle">> \o Tail(pc)
                 /\ key = "YELLOW" => pc' = <<"sb_start", "run_break">> \o Tail(pc)
          /\ (RunStep /\ exc = "none" /\ Head(pc') = "run_eval") =>
                 At("run_idle") \/ (At("run_prompt") /\ key' = ret[2])
         ]_vars

\* idle() has returned BLUE to run() after the debounce: the keypad was seen
\* released and the lamps are off
C30_Witness ==
    /\ At("run_idle")
    /\ Returned("idle", "BLUE")
    /\ sawReleased
    /\ pins = KEYPAD_RELEASED
    /\ LampsOff

\* C31: boot is true only until idle() has returned for the first time;
\* idle() skips the animation at its start exactly when boot is false; the
\* animation starts only at the top of the loop with skip false, and the top
\* of the loop is reached again only from the wait once
\* IDLE_ANIMATION_INTERVAL seconds have passed in it, a key having ended the
\* call otherwise.
C31_AnimationOnBootOnly ==
    /\ [](At("run_break") => ~boot)
    /\ [][/\ boot' => boot
          /\ (At("run_idle") /\ RunStep) => ~boot'
          /\ (At("idle_start") /\ RunStep) =>
                 skip' = ~boot /\ pc' = <<"idle_top">> \o Tail(pc)
          /\ (At("idle_top") /\ RunStep) =>
                 IF skip
                 THEN /\ pc' = <<"idle_wait">> \o Tail(pc)
                      /\ timer' = 0 /\ lamps' = lamps /\ ~skip'
                 ELSE /\ pc' = <<"idle_frame">> \o Tail(pc)
                      /\ frame' = 1 /\ lamps' = write_frame(TETRIS[1])
          /\ (exc = "none" /\ RunStep /\ Head(pc') = "idle_frame") => At("idle_top")
          /\ (exc = "none" /\ RunStep /\ Head(pc') = "idle_top") =>
                 \/ At("idle_start")
                 \/ At("idle_wait") /\ timer >= IDLE_ANIMATION_INTERVAL /\ ~skip
          /\ (At("idle_wait") /\ RunStep /\ timer < IDLE_ANIMATION_INTERVAL) =>
                 read' # None /\ pc' = <<"deb_on", "idle_deb">> \o Tail(pc)
         ]_vars

\* a later call of idle() is at the top of its loop and skips the animation
C31_Witness ==
    /\ At("idle_top")
    /\ ~boot
    /\ skip
    /\ LampsOff

\* C32: the shuffle branch of run() raises no error out of the run loop:
\* random.choice never fails on the list of reserved track numbers.
C32_ShuffleNeverRaises == exc # "IndexError"

\* BLUE was pressed with a songs directory that holds no track: the
\* IndexError of random.choice has left run() from the shuffle loop
C32_Witness ==
    /\ exc = "IndexError"
    /\ songs = SongsPath("directory", {})
    /\ unwound # <<>> /\ Head(unwound) = "run_shuffle"
    /\ pc = <<"main_except">>

\* C33: a call of song_path for the number of the call before it, which
\* found a file, returns that file again: the directory is the same, and the
\* order in which it is listed does not matter.
C33_SameFileEveryCall ==
    [][(number' = number /\ spath # NoFile) => spath' = spath]_vars

\* song_path(7) has returned 7_Other.mp3 in a directory that also holds
\* 7_Song.mp3
C33_Witness ==
    /\ number = 7
    /\ spath = SongFile(<<"7">>, "Other", "mp3")
    /\ SongFile(<<"7">>, "Song", "mp3") \in songs.files
    /\ pc = <<"main">>

\* C34: play(number) takes the TRACK_NOT_FOUND branch only when the songs
\* directory holds no file <number>_*.mp3 and no file <number>_*.wav.
C34_NotFoundOnlyWithoutFile ==
    At("play_nf") =>
        \A f \in songs.files : ~(f.prefix = str(number) /\ f.ext \in {"mp3", "wav"})

\* play(0) is in its TRACK_NOT_FOUND branch although the directory holds
\* 0_Wave.wav
C34_Witness ==
    /\ At("play_nf")
    /\ number = 0
    /\ spath = NoFile
    /\ SongFile(<<"0">>, "Wave", "wav") \in songs.files

\* C35: the press of YELLOW that made soundboard() return is never what
\* key_pressed_check() of the following idle() reads as a key.
C35_ExitPressConsumed == ~(heldOver /\ Head(pc) \in {"deb_on", "idle_deb", "run_idle"})

\* idle() has read YELLOW and started its feedback while the pins still hold
\* the press that ended soundboard()
C35_Witness ==
    /\ AtIn("deb_on", "idle_deb")
    /\ heldOver
    /\ read = "YELLOW"
    /\ ~boot
    /\ pins = <<1,0,0,0>>

\* C36: when play() has returned, or has been left by an exception raised
\* in its polling loop once the finally block is done, the player it
\* launched is not running any more: it has exited or proc.terminate() was
\* called.
C36_NoPlayerLeftRunning ==
    /\ (exc = "none" /\ ret # <<>> /\ ret[1] = "play") => proc # "running"
    /\ (pc = <<"main_except">> /\ unwound # <<>> /\ Head(unwound) = "play_fin_end")
           => proc # "running"

\* Ctrl-C arrived in the polling loop: the finally block has run, the lamps
\* are off, play() is left and the player is still running
C36_Witness ==
    /\ pc = <<"main_except">>
    /\ exc = "KeyboardInterrupt"
    /\ unwound # <<>> /\ Head(unwound) = "play_fin_end"
    /\ proc = "running"
    /\ LampsOff

\* C37: when Ctrl-C has ended run() and the main script has written the
\* lamps off for the last time, the lamp thread of play() is not alive any
\* more, so it writes no frame after that write.
C37_ThreadEndedBeforeFinalWrite ==
    (gpio = "cleanup" /\ exc = "KeyboardInterrupt") => ~LightsAlive

\* Ctrl-C arrived between lights_thread.start() and the try statement: the
\* main script has written the lamps off and released the pins, stop_event
\* was never set and the thread is about to write a frame
C37_Witness ==
    /\ pc = <<"exit_0">>
    /\ exc = "KeyboardInterrupt"
    /\ gpio = "cleanup"
    /\ unwound # <<>> /\ Head(unwound) = "play_try"
    /\ ~stop_event
    /\ lights.pc = "write"

\* labels at which the main thread polls the keypad for a new key
WaitingForKey == {"prompt_loop", "prompt_sleep", "idle_wait", "sb_loop", "sb_sleep"}

\* C38: while prompt_keypad_input(), the wait of idle() between two
\* animations or the loop of soundboard() polls for a key, all three lamps
\* are off, and they are off when idle() returns its key.
C38_LampsOffWhileWaiting ==
    /\ (exc = "none" /\ Running /\ Head(pc) \in WaitingForKey) => LampsOff
    /\ (At("idle_deb") \/ At("run_idle")) => LampsOff

\* key_pressed_check() of idle() has read a key during the first frame of
\* the animation, the top lamps lit
C38_Witness ==
    /\ AtIn("deb_on", "idle_deb")
    /\ read = "7"
    /\ lamps = write_frame(TETRIS[1])
    /\ ~LampsOff

\* run() evaluates a key that no branch of its if/elif chain matches
Unmatched == key = "RED" \/ (key \in {"R", "G"} /\ input = <<>>)

\* C39: in the inner loop of run(), RED, and R or G with an empty buffer,
\* leave the buffer, the lamps, the sound, the soundboard bank and the
\* locals of play() as they are, and the next step calls
\* prompt_keypad_input(), which starts a new KEYPAD_TIMEOUT.
C39_UnmatchedKeysIgnored ==
    [][/\ (At("run_eval") /\ Unmatched /\ RunStep) =>
              /\ pc' = <<"run_next">> \o Tail(pc)
              /\ UNCHANGED <<input, lamps, sd, cacheVars, blink, playVars>>
       /\ (At("run_next") /\ RunStep) =>
              /\ pc' = <<"prompt_start", "run_prompt">> \o Tail(pc)
              /\ UNCHANGED <<input, lamps, sd, cacheVars, blink, playVars>>
       /\ (AtIn("prompt_start", "run_prompt") /\ RunStep) =>
              /\ pc' = <<"prompt_loop", "run_prompt">> \o Tail(Tail(pc))
              /\ timer' = 0
              /\ UNCHANGED <<input, lamps, sd, cacheVars, blink, playVars>>
      ]_vars

\* RED was pressed after the digit 7: the buffer still holds 7 and the next
\* key is about to be prompted for
C39_Witness ==
    /\ At("run_next")
    /\ key = "RED"
    /\ input = <<"7">>
    /\ LampsOff
    /\ proc = "none"

\* every sample of the current read_keypad_input call is the vector v
AllSamples(v) == samples # <<>> /\ \A i \in DOMAIN samples : samples[i] = v

\* C40: KEYPAD_LOOKUP has 15 pin vectors, maps them one-to-one onto the ten
\* digits, R, G, YELLOW, BLUE and RED, and has no entry for
\* KEYPAD_RELEASED; so a read whose samples are all released returns None,
\* and a read whose samples are all one vector returns a symbol that no
\* other vector has.
C40_LookupInjective ==
    /\ Cardinality(DOMAIN KEYPAD_LOOKUP) = 15
    /\ \A v, w \in DOMAIN KEYPAD_LOOKUP : KEYPAD_LOOKUP[v] = KEYPAD_LOOKUP[w] => v = w
    /\ {KEYPAD_LOOKUP[v] : v \in DOMAIN KEYPAD_LOOKUP} =
           Digits \cup {"R", "G", "YELLOW", "BLUE", "RED"}
    /\ KEYPAD_RELEASED \notin DOMAIN KEYPAD_LOOKUP
    /\ AllSamples(KEYPAD_RELEASED) => decoded = None
    /\ \A v \in DOMAIN KEYPAD_LOOKUP :
           AllSamples(v) =>
               /\ decoded = KEYPAD_LOOKUP[v]
               /\ \A w \in DOMAIN KEYPAD_LOOKUP \ {v} : KEYPAD_LOOKUP[w] # decoded

\* ten samples of the released keypad were decoded as no key
C40_Witness ==
    /\ AllSamples(KEYPAD_RELEASED)
    /\ Len(samples) = KEYPAD_TAKE_SAMPLES
    /\ decoded = None

====
